---- MODULE Spec2Model ----
(***************************************************************************)
(* Hive -> BigQuery SQL conversion workflow (src/agent/graph.py,           *)
(* src/agent/nodes.py) together with the services its nodes call.          *)
(*                                                                         *)
(* A SQL text is a sequence of tokens.  An Optional[str] is a sequence of  *)
(* length at most one: None is <<>> and a message m is <<m>>.              *)
(***************************************************************************)
EXTENDS Integers, Sequences, FiniteSets, TLC

\* ------------------------------------------------------------------ bounds
\* max_retries of a run is drawn from 0..MaxRetriesBound
MaxRetriesBound == 2

\* ... and from 0..ChunkedRetriesBound when the run is one that exercises
\* the chunker (a structured text, or SQL_CHUNKING_MODE other than auto)
ChunkedRetriesBound == 1

\* ------------------------------------------------------------- data values
None == <<>>
Some(m) == <<m>>

\* Table identifiers that can occur in a SQL text.
TableNames == {"h1", "h2", "b1"}

\* TableMappingService._mappings as loaded from the CSV: h1 has a BigQuery
\* name, h2 has none.
_mappings == [t \in {"h1"} |-> "b1"]

\* SQL texts submitted to run_conversion: short single statements, and
\* texts that are long or have a structure the chunker recognises (a CTE, a
\* batch of statements with a USE, a batch of USE statements only, an INSERT
\* over several lines, a long expression).
ShortSqls ==
  { <<"SELECT", "FROM", "h1">>,
    <<"SELECT", "FROM", "h2">>,
    <<"SELECT", "FROM", "h1", "JOIN", "h2">>,
    <<"SELECT", "1">> }

StructuredSqls ==
  { <<"WITH", "c1", "AS", "(", "SELECT", "FROM", "h1", ")", "SELECT", "2", "+", "2">>,
    <<"USE", "db", ";", "SELECT", "FROM", "h1", ";", "SELECT", "1">>,
    <<"USE", "db", ";", "USE", "db">>,
    <<"INSERT", "INTO", "TABLE", "h1", "NL", "SELECT", "NL", "FROM", "NL", "h1">>,
    <<"SELECT", "1", "+", "1", "+", "1", "+", "1", "+", "1", "+", "1">> }

RequestSqls == ShortSqls \cup StructuredSqls

\* response.content of the LLM when it is asked to translate or to repair.
LlmSqlReplies ==
  { <<"SELECT", "FROM", "b1">>,
    <<"FENCE", "SELECT", "FROM", "h1", "FENCE">>,
    <<"SELECT", "${zdt}", "FROM", "b1">> }

\* Replies of the LLM to a validation prompt (HIVE_VALIDATION_PROMPT,
\* BIGQUERY_VALIDATION_PROMPT): parsable JSON carrying is_valid and error, or
\* text json.loads rejects.
LlmJsonReplies ==
  [parsable : {TRUE}, is_valid : BOOLEAN, error : {None, Some("syntax error")}]
    \cup [parsable : {FALSE}, is_valid : {FALSE}, error : {None}]

\* Outcomes of bigquery.Client.query(..., dry_run=True).
DryRunOutcomes == {"ok", "BadRequest", "Exception"}

\* BQ_VALIDATION_MODE values get_validation_mode accepts.
ValidationModes == {"dry_run", "llm"}

\* ---------------------------------------------------------------- helpers
\* The "remove markdown code blocks" clean-up applied to every LLM reply:
\* if the text starts with a code fence the first and the last line are dropped.
StripFence(content) ==
  IF content # <<>> /\ Head(content) = "FENCE"
    THEN SubSeq(content, 2, Len(content) - 1)
    ELSE content

\* exp.Table nodes of the parsed statement, minus those under a USE.
IsTableRef(sql, i) ==
  /\ sql[i] \in TableNames
  /\ ~(i > 1 /\ sql[i - 1] = "USE")

\* _regex_replace on a service whose _mappings dict holds mappings: a mapped
\* name is replaced where it follows one of the
\* keywords FROM, JOIN, INTO, UPDATE, TABLE and one white-space character.
_regex_replace_with(mappings, sql) ==
  [i \in 1..Len(sql) |->
     IF /\ sql[i] \in DOMAIN mappings
        /\ \/ i > 1 /\ sql[i - 1] \in {"FROM", "JOIN", "INTO", "UPDATE", "TABLE"}
           \/ /\ i > 2
              /\ sql[i - 1] = "NL"
              /\ sql[i - 2] \in {"FROM", "JOIN", "INTO", "UPDATE", "TABLE"}
       THEN mappings[sql[i]]
       ELSE sql[i]]

\* _regex_replace once the CSV is loaded.
_regex_replace(sql) == _regex_replace_with(_mappings, sql)

IsNotNewline(tok) == tok # "NL"

RECURSIVE JoinStatements(_)
JoinStatements(sql) ==
  IF sql = <<>> THEN <<>>
  ELSE IF Head(sql) = ";" /\ Tail(sql) # <<>>
    THEN <<";", "NL">> \o JoinStatements(Tail(sql))
    ELSE <<Head(sql)>> \o JoinStatements(Tail(sql))

\* ";\n".join(s.sql(dialect="hive") for s in parsed): sqlglot writes every
\* statement on one line.
Regenerate(sql) == JoinStatements(SelectSeq(sql, IsNotNewline))

\* TableMappingService.validate_and_replace on a service whose _mappings dict
\* holds mappings.  parse_ok is whether
\* sqlglot.parse accepted the text; when it raises, the regex fallback runs
\* and nothing is reported unmapped.  The text is regenerated from the parse
\* tree only when a table was replaced.
validate_and_replace_with(mappings, sql, parse_ok) ==
  IF sql = <<>>
    THEN [sql |-> <<>>, unmapped |-> {}]
    ELSE IF ~parse_ok
      THEN [sql |-> _regex_replace_with(mappings, sql), unmapped |-> {}]
      ELSE LET modified == \E i \in 1..Len(sql) :
                              IsTableRef(sql, i) /\ sql[i] \in DOMAIN mappings
               replaced == [i \in 1..Len(sql) |->
                              IF IsTableRef(sql, i) /\ sql[i] \in DOMAIN mappings
                                THEN mappings[sql[i]]
                                ELSE sql[i]]
           IN  [sql |-> IF modified THEN Regenerate(replaced) ELSE sql,
                unmapped |-> {sql[i] : i \in {j \in 1..Len(sql) :
                                IsTableRef(sql, j) /\ sql[j] \notin DOMAIN mappings}}]

\* validate_and_replace once the CSV is loaded.
validate_and_replace(sql, parse_ok) == validate_and_replace_with(_mappings, sql, parse_ok)

\* TableMappingService.replace_table_names
replace_table_names(sql, parse_ok) == validate_and_replace(sql, parse_ok).sql

\* validation.replace_template_variables: every ${...} macro becomes a
\* BigQuery expression before the dry run.
replace_template_variables(sql) ==
  [i \in 1..Len(sql) |-> IF sql[i] = "${zdt}" THEN "FORMAT_DATE()" ELSE sql[i]]

\* BigQueryService.dry_run: BadRequest and every other exception are turned
\* into an unsuccessful DryRunResult.
dry_run(outcome) ==
  CASE outcome = "ok" -> [success |-> TRUE, error_message |-> None]
    [] outcome = "BadRequest" -> [success |-> FALSE, error_message |-> Some("syntax error")]
    [] OTHER -> [success |-> FALSE, error_message |-> Some("Unexpected error")]

\* validation.validate_with_dry_run
validate_with_dry_run(outcome) ==
  [success |-> dry_run(outcome).success,
   error_message |-> dry_run(outcome).error_message,
   validation_mode |-> "dry_run"]

\* validation.validate_with_llm
validate_with_llm(reply) ==
  IF reply.parsable
    THEN [success |-> reply.is_valid,
          error_message |-> IF ~reply.is_valid THEN reply.error ELSE None,
          validation_mode |-> "llm"]
    ELSE [success |-> FALSE,
          error_message |-> Some("Failed to parse LLM validation response"),
          validation_mode |-> "llm"]

\* ConversionHistory(attempt=..., bigquery_sql=..., error=...)
ConversionHistory(attempt, sql, error) ==
  [attempt |-> attempt, bigquery_sql |-> sql, error |-> error]

\* The history_str built by fix_node, one record per line it writes.
RECURSIVE FormatHistory(_)
FormatHistory(history) ==
  IF history = <<>>
    THEN <<>>
    ELSE LET entry == Head(history)
         IN  << [line |-> "Attempt", attempt |-> entry.attempt, sql |-> <<>>, text |-> None],
                [line |-> "SQL", attempt |-> 0, sql |-> entry.bigquery_sql, text |-> None] >>
             \o (IF entry.error # None /\ entry.error # Some("")
                   THEN << [line |-> "Error", attempt |-> 0, sql |-> <<>>, text |-> entry.error] >>
                   ELSE <<>>)
             \o FormatHistory(Tail(history))

history_str(history) ==
  IF FormatHistory(history) = <<>>
    THEN << [line |-> "No previous attempts.", attempt |-> 0, sql |-> <<>>, text |-> None] >>
    ELSE FormatHistory(history)

\* validate_node: attempt = len(conversion_history) + 1
attempt_number_zero_based(history) == Len(history)

attempt_number(history) == Len(history) + 1

\* validate_node: history = list(...); history.append(entry)
append_history_prepends(history, entry) == <<entry>> \o history

append_history(history, entry) == Append(history, entry)

\* fix_node: retry_count = state["retry_count"] + 1
next_retry_count_skips(retries) == retries + 2

next_retry_count(retries) == retries + 1

\* ------------------------------------------------------------ SQL chunker
\* (src/services/sql_chunker.py)  A text is a sequence of lexemes: two
\* neighbouring lexemes are separated by one blank, the lexeme "NL" is a line
\* break.  Lengths are counted in lexemes.  "\\'" is a quote character that
\* follows a backslash.

\* MAX_SQL_LENGTH and MAX_SQL_LINES are read from the environment; the model
\* runs with the two thresholds configured to 10 lexemes and 2 line breaks.
MAX_SQL_LENGTH == 10

MAX_SQL_LINES == 2

\* SQL_CHUNKING_MODE values convert_node tells apart (any other value behaves
\* as "auto").
ChunkingModes == {"auto", "always", "disabled"}

IsSpace(tok) == tok = "NL"

\* Lexemes that are not a run of \w characters.
NonWords ==
  {"(", ")", ",", ";", "'", "\"", "\\'", "NL", "BACKTICK", "FENCE", "*", "+", "()", "--",
   "${zdt}", "FORMAT_DATE()"}

IsWord(tok) == tok \notin NonWords

\* The quote character a lexeme holds, "" when it holds none.
QuoteOf(tok) ==
  CASE tok \in {"'", "\\'"} -> "'"
    [] tok = "\"" -> "\""
    [] OTHER -> ""

IsUnescapedQuote_any(tok) == tok \in {"'", "\"", "\\'"}

\* A quote character whose preceding character is not a backslash.
IsUnescapedQuote(tok) == tok \in {"'", "\""}

RECURSIVE lstrip(_)
lstrip(sql) ==
  IF sql # <<>> /\ IsSpace(Head(sql)) THEN lstrip(Tail(sql)) ELSE sql

RECURSIVE rstrip(_)
rstrip(sql) ==
  IF sql # <<>> /\ IsSpace(sql[Len(sql)])
    THEN rstrip(SubSeq(sql, 1, Len(sql) - 1))
    ELSE sql

\* str.strip()
strip(sql) == rstrip(lstrip(sql))

\* str.count('\n')
CountNewlines(sql) == Cardinality({i \in 1..Len(sql) : sql[i] = "NL"})

\* str.startswith
StartsWith(sql, prefix) ==
  Len(prefix) <= Len(sql) /\ SubSeq(sql, 1, Len(prefix)) = prefix

\* Position of the first lexeme at or after i that is not white space
\* (Len(sql) + 1 when there is none): what \s* and \s+ skip.
RECURSIVE SkipSpace(_, _)
SkipSpace(sql, i) ==
  IF i <= Len(sql) /\ IsSpace(sql[i]) THEN SkipSpace(sql, i + 1) ELSE i

\* sep.join(pieces)
RECURSIVE Join(_, _)
Join(pieces, sep) ==
  IF pieces = <<>> THEN <<>>
  ELSE IF Len(pieces) = 1 THEN pieces[1]
  ELSE pieces[1] \o sep \o Join(Tail(pieces), sep)

\* str.split(sep) for a one-lexeme separator
RECURSIVE Split(_, _, _)
Split(sql, sep, current) ==
  IF sql = <<>> THEN <<current>>
  ELSE IF Head(sql) = sep THEN <<current>> \o Split(Tail(sql), sep, <<>>)
  ELSE Split(Tail(sql), sep, Append(current, Head(sql)))

\* SQLChunk(chunk_type, content, name, index)
SQLChunk(chunk_type, content, name, index) ==
  [chunk_type |-> chunk_type, content |-> content, name |-> name, index |-> index]

\* SQLChunker.should_chunk, on original_sql = sql.strip()
should_chunk(original_sql) ==
  \/ Len(original_sql) > MAX_SQL_LENGTH
  \/ CountNewlines(original_sql) > MAX_SQL_LINES

\* One pass of re.sub(q[^q]*q, qq): a quoted run keeps its two quote
\* characters only.
RECURSIVE RemoveQuoted(_, _)
RemoveQuoted(sql, q) ==
  IF sql = <<>> THEN <<>>
  ELSE IF QuoteOf(Head(sql)) = q
            /\ \E j \in 2..Len(sql) : QuoteOf(sql[j]) = q
    THEN LET close == CHOOSE j \in 2..Len(sql) :
                        /\ QuoteOf(sql[j]) = q
                        /\ \A k \in 2..(j - 1) : QuoteOf(sql[k]) # q
         IN  <<Head(sql), sql[close]>> \o RemoveQuoted(SubSeq(sql, close + 1, Len(sql)), q)
    ELSE <<Head(sql)>> \o RemoveQuoted(Tail(sql), q)

_remove_string_literals(sql) == RemoveQuoted(RemoveQuoted(sql, "'"), "\"")

IsNonBlank(piece) == strip(piece) # <<>>

_has_multiple_statements(sql) ==
  Len(SelectSeq(Split(_remove_string_literals(sql), ";", <<>>), IsNonBlank)) > 1

\* _split_by_semicolon: the loop over the characters, then the last statement.
RECURSIVE SplitScan(_, _, _, _, _, _)
SplitScan(sql, i, in_string, string_char, current, statements) ==
  IF i > Len(sql)
    THEN IF strip(current) # <<>> THEN Append(statements, strip(current)) ELSE statements
    ELSE LET tok == sql[i]
             opens == QuoteOf(tok) # "" /\ ~in_string
             closes == ~opens /\ QuoteOf(tok) = string_char /\ in_string
             in_string2 == IF opens THEN TRUE ELSE IF closes THEN FALSE ELSE in_string
             string_char2 == IF opens THEN QuoteOf(tok) ELSE string_char
         IN  IF tok = ";" /\ ~in_string2
               THEN SplitScan(sql, i + 1, in_string2, string_char2, <<>>,
                      IF strip(current) # <<>>
                        THEN Append(statements, strip(current)) ELSE statements)
               ELSE SplitScan(sql, i + 1, in_string2, string_char2,
                      Append(current, tok), statements)

_split_by_semicolon(sql) == SplitScan(sql, 1, FALSE, "", <<>>, <<>>)

_detect_statement_type_statement(sql) == "statement"

_detect_statement_type(sql) ==
  LET s == strip(sql)
  IN  IF StartsWith(s, <<"WITH">>) THEN "cte_query"
      ELSE IF StartsWith(s, <<"INSERT">>) THEN "insert"
      ELSE IF StartsWith(s, <<"ALTER", "VIEW">>) THEN "alter_view"
      ELSE IF StartsWith(s, <<"CREATE">>) THEN "create"
      ELSE IF StartsWith(s, <<"SELECT">>) THEN "select"
      ELSE IF StartsWith(s, <<"USE">>) THEN "use"
      ELSE "other"

\* _chunk_by_statements: index = position in the list _split_by_semicolon
\* returned (its entries are stripped and never empty).
_chunk_by_statements(sql) ==
  LET statements == _split_by_semicolon(sql)
  IN  [i \in 1..Len(statements) |->
         SQLChunk(_detect_statement_type(statements[i]), statements[i], None, i - 1)]

_is_insert_select(sql) ==
  /\ StartsWith(strip(sql), <<"INSERT">>)
  /\ \E i \in 1..Len(sql) : sql[i] = "SELECT"

_is_alter_view(sql) ==
  \/ StartsWith(strip(sql), <<"ALTER", "VIEW">>)
  \/ StartsWith(strip(sql), <<"ALTER", "NL", "VIEW">>)

\* _find_matching_paren: position of the parenthesis closing the one at
\* start, 0 where the code returns -1.  Positions are counted from 1.
RECURSIVE ParenScan(_, _, _, _, _)
ParenScan(sql, i, depth, in_string, string_char) ==
  IF i > Len(sql) THEN 0
  ELSE LET tok == sql[i]
       IN  IF IsUnescapedQuote(tok)
             THEN IF ~in_string
                    THEN ParenScan(sql, i + 1, depth, TRUE, tok)
                    ELSE IF tok = string_char
                      THEN ParenScan(sql, i + 1, depth, FALSE, string_char)
                      ELSE ParenScan(sql, i + 1, depth, in_string, string_char)
           ELSE IF in_string THEN ParenScan(sql, i + 1, depth, in_string, string_char)
           ELSE IF tok = "(" THEN ParenScan(sql, i + 1, depth + 1, in_string, string_char)
           ELSE IF tok = ")"
             THEN IF depth - 1 = 0
                    THEN i
                    ELSE ParenScan(sql, i + 1, depth - 1, in_string, string_char)
           ELSE ParenScan(sql, i + 1, depth, in_string, string_char)

_find_matching_paren(sql, start) == ParenScan(sql, start, 0, FALSE, "")

\* _has_cte: re.match(r'\s*WITH\s+', sql)
_has_cte(sql) ==
  LET w == SkipSpace(sql, 1)
  IN  w < Len(sql) /\ sql[w] = "WITH"

\* _parse_cte_and_main: the while loop, cte_blocks being the blocks found so
\* far; the result is (cte_blocks, main_query).
RECURSIVE ParseCte(_, _)
ParseCte(remaining, cte_blocks) ==
  LET n == SkipSpace(remaining, 1)
      a == SkipSpace(remaining, n + 1)
      p == SkipSpace(remaining, a + 1)
      matched == /\ p <= Len(remaining)
                 /\ IsWord(remaining[n])
                 /\ remaining[a] = "AS"
                 /\ remaining[p] = "("
      end_paren == _find_matching_paren(remaining, p)
      definition == SubSeq(remaining, p, end_paren)
      rest == strip(SubSeq(remaining, end_paren + 1, Len(remaining)))
      blocks == Append(cte_blocks, [name |-> remaining[n], definition |-> definition])
  IN  IF ~matched \/ end_paren = 0
        THEN [cte_blocks |-> cte_blocks, main_query |-> strip(remaining)]
        ELSE IF StartsWith(rest, <<",">>)
          THEN ParseCte(strip(Tail(rest)), blocks)
          ELSE [cte_blocks |-> blocks, main_query |-> strip(rest)]

_parse_cte_and_main(sql) == ParseCte(sql, <<>>)

_chunk_by_cte(sql) ==
  IF ~_has_cte(sql)
    THEN << SQLChunk("main", sql, None, 0) >>
    ELSE LET after_with == SubSeq(sql, SkipSpace(sql, SkipSpace(sql, 1) + 1), Len(sql))
             parsed == _parse_cte_and_main(after_with)
             cte_blocks == parsed.cte_blocks
         IN  [i \in 1..Len(cte_blocks) |->
                SQLChunk("cte", cte_blocks[i].definition, Some(cte_blocks[i].name), i - 1)]
             \o (IF parsed.main_query # <<>>
                   THEN << SQLChunk("main", parsed.main_query, None, Len(cte_blocks)) >>
                   ELSE <<>>)

\* _remove_parentheses_content
RECURSIVE ParenContentScan(_, _, _, _, _)
ParenContentScan(sql, i, depth, in_string, string_char) ==
  IF i > Len(sql) THEN <<>>
  ELSE LET tok == sql[i]
       IN  IF QuoteOf(tok) # "" /\ ~in_string
             THEN (IF depth = 0 THEN <<tok>> ELSE <<>>)
                  \o ParenContentScan(sql, i + 1, depth, TRUE, QuoteOf(tok))
           ELSE IF QuoteOf(tok) = string_char /\ in_string
             THEN (IF depth = 0 THEN <<tok>> ELSE <<>>)
                  \o ParenContentScan(sql, i + 1, depth, FALSE, string_char)
           ELSE IF in_string
             THEN ParenContentScan(sql, i + 1, depth, in_string, string_char)
           ELSE IF tok = "("
             THEN (IF depth + 1 = 1 THEN <<"()">> ELSE <<>>)
                  \o ParenContentScan(sql, i + 1, depth + 1, in_string, string_char)
           ELSE IF tok = ")"
             THEN ParenContentScan(sql, i + 1, depth - 1, in_string, string_char)
           ELSE (IF depth = 0 THEN <<tok>> ELSE <<>>)
                \o ParenContentScan(sql, i + 1, depth, in_string, string_char)

_remove_parentheses_content(sql) == ParenContentScan(sql, 1, 0, FALSE, "")

\* _has_union: re.search(r'\bUNION\s+(?:ALL\s+)?', clean)
_has_union(sql) ==
  LET clean == _remove_parentheses_content(sql)
  IN  \E i \in 1..(Len(clean) - 1) : clean[i] = "UNION"

\* Identifiers that begin with the letters UNION, and what follows those
\* letters.
UnionPrefixedWords == {"UNION_ID"}

RestAfterUnion(tok) == IF tok = "UNION_ID" THEN <<"_ID">> ELSE <<>>

\* remaining.startswith('UNION'): no word boundary is asked for.
StartsWithUnion(tok) == tok = "UNION" \/ tok \in UnionPrefixedWords

\* _find_top_level_unions: (start, end) of every UNION or UNION ALL outside
\* parentheses and literals; end is the position the scan continues at, and
\* rest is the remainder of the lexeme at start that lies after end.
RECURSIVE UnionScan(_, _, _, _, _)
UnionScan(sql, i, depth, in_string, string_char) ==
  IF i > Len(sql) THEN <<>>
  ELSE LET tok == sql[i]
       IN  IF IsUnescapedQuote(tok)
             THEN IF ~in_string
                    THEN UnionScan(sql, i + 1, depth, TRUE, tok)
                    ELSE IF tok = string_char
                      THEN UnionScan(sql, i + 1, depth, FALSE, string_char)
                      ELSE UnionScan(sql, i + 1, depth, in_string, string_char)
           ELSE IF in_string THEN UnionScan(sql, i + 1, depth, in_string, string_char)
           ELSE IF tok = "(" THEN UnionScan(sql, i + 1, depth + 1, in_string, string_char)
           ELSE IF tok = ")" THEN UnionScan(sql, i + 1, depth - 1, in_string, string_char)
           ELSE IF depth = 0 /\ tok = "UNION" /\ i < Len(sql) /\ sql[i + 1] = "ALL"
             THEN << [start |-> i, end |-> i + 2, union_type |-> "UNION ALL",
                      rest |-> <<>>] >>
                  \o UnionScan(sql, i + 2, depth, in_string, string_char)
           ELSE IF depth = 0 /\ StartsWithUnion(tok)
             THEN << [start |-> i, end |-> i + 1, union_type |-> "UNION",
                      rest |-> RestAfterUnion(tok)] >>
                  \o UnionScan(sql, i + 1, depth, in_string, string_char)
           ELSE UnionScan(sql, i + 1, depth, in_string, string_char)

_find_top_level_unions(sql) == UnionScan(sql, 1, 0, FALSE, "")

\* _chunk_by_union: the loop over union_positions, chunks being the chunks
\* made so far and prev_end the position after the previous UNION; the text
\* sql[prev_end:start] begins with what is left of the lexeme at prev_end.
RECURSIVE UnionParts(_, _, _, _, _)
UnionParts(sql, union_positions, i, prev_end, chunks) ==
  LET prev_rest == IF i = 1 THEN <<>> ELSE union_positions[i - 1].rest
  IN  IF i > Len(union_positions)
        THEN LET last_part == strip(prev_rest \o SubSeq(sql, prev_end, Len(sql)))
             IN  IF last_part # <<>>
                   THEN Append(chunks, SQLChunk("union_part", last_part, None, Len(chunks)))
                   ELSE chunks
        ELSE LET part == strip(prev_rest
                               \o SubSeq(sql, prev_end, union_positions[i].start - 1))
             IN  UnionParts(sql, union_positions, i + 1, union_positions[i].end,
                   IF part # <<>>
                     THEN Append(chunks,
                            SQLChunk(IF i = 1 THEN "union_first" ELSE "union_part",
                                     part, None, Len(chunks)))
                     ELSE chunks)

_chunk_by_union(sql) ==
  IF _find_top_level_unions(sql) = <<>>
    THEN << SQLChunk("main", sql, None, 0) >>
    ELSE UnionParts(sql, _find_top_level_unions(sql), 1, 1, <<>>)

\* for i, chunk in enumerate(...): chunk.index = i + 1
Reindex_unchanged(chunks) == chunks

Reindex(chunks) == [i \in 1..Len(chunks) |-> [chunks[i] EXCEPT !.index = i]]

\* Position of the lexeme after TABLE's name in
\* INSERT\s+(?:OVERWRITE\s+)?(?:INTO\s+)?TABLE\s+(\S+), 0 when the text does
\* not match; the name is the lexeme before it.
InsertHeaderEnd(sql) ==
  LET o == SkipSpace(sql, 2)
      n == IF o <= Len(sql) /\ sql[o] = "OVERWRITE" THEN SkipSpace(sql, o + 1) ELSE o
      t == IF n <= Len(sql) /\ sql[n] = "INTO" THEN SkipSpace(sql, n + 1) ELSE n
      name == SkipSpace(sql, t + 1)
  IN  IF /\ name <= Len(sql)
         /\ sql[1] = "INSERT"
         /\ sql[t] = "TABLE"
        THEN name + 1
        ELSE 0

_chunk_insert_select(sql) ==
  LET header_end == InsertHeaderEnd(sql)
      body == SkipSpace(sql, header_end)
      matched == /\ header_end # 0
                 /\ body <= Len(sql)
                 /\ sql[body] \in {"WITH", "SELECT"}
      insert_part == SubSeq(sql, 1, header_end - 1)
      select_part == SubSeq(sql, body, Len(sql))
  IN  IF matched
        THEN << SQLChunk("insert_header", insert_part, None, 0) >>
             \o (IF _has_cte(select_part) THEN Reindex(_chunk_by_cte(select_part))
                 ELSE IF _has_union(select_part) THEN Reindex(_chunk_by_union(select_part))
                 ELSE << SQLChunk("select", select_part, None, 1) >>)
        ELSE << SQLChunk("insert", sql, None, 0) >>

\* Position of AS in ALTER\s+VIEW\s+(\S+)\s+AS, 0 when the text does not match.
AlterHeaderEnd(sql) ==
  LET v == SkipSpace(sql, 2)
      name == SkipSpace(sql, v + 1)
      as == SkipSpace(sql, name + 1)
  IN  IF /\ as <= Len(sql)
         /\ sql[1] = "ALTER"
         /\ sql[v] = "VIEW"
         /\ sql[as] = "AS"
        THEN as
        ELSE 0

_chunk_alter_view(sql) ==
  LET as == AlterHeaderEnd(sql)
      body == SkipSpace(sql, as + 1)
      matched == as # 0 /\ body <= Len(sql) /\ sql[body] = "SELECT"
  IN  IF matched
        THEN << SQLChunk("alter_view_header", SubSeq(sql, 1, as), None, 0),
                SQLChunk("select", SubSeq(sql, body, Len(sql)), None, 1) >>
        ELSE << SQLChunk("alter_view", sql, None, 0) >>

analyze_and_chunk_cte_first(sql) ==
  IF _has_cte(sql) THEN _chunk_by_cte(sql)
  ELSE IF _has_multiple_statements(sql) THEN _chunk_by_statements(sql)
  ELSE IF _is_insert_select(sql) THEN _chunk_insert_select(sql)
  ELSE IF _is_alter_view(sql) THEN _chunk_alter_view(sql)
  ELSE IF _has_union(sql) THEN _chunk_by_union(sql)
  ELSE << SQLChunk("main", sql, None, 0) >>

\* SQLChunker.analyze_and_chunk, on original_sql = sql.strip()
analyze_and_chunk(sql) ==
  IF _has_multiple_statements(sql) THEN _chunk_by_statements(sql)
  ELSE IF _is_insert_select(sql) THEN _chunk_insert_select(sql)
  ELSE IF _is_alter_view(sql) THEN _chunk_alter_view(sql)
  ELSE IF _has_cte(sql) THEN _chunk_by_cte(sql)
  ELSE IF _has_union(sql) THEN _chunk_by_union(sql)
  ELSE << SQLChunk("main", sql, None, 0) >>

\* ------------------------------------------------------- ChunkedConverter
_convert_insert_header(insert_sql) ==
  IF InsertHeaderEnd(insert_sql) # 0
    THEN <<"CREATE", "OR", "REPLACE", "TABLE", "BACKTICK",
           insert_sql[InsertHeaderEnd(insert_sql) - 1], "BACKTICK", "AS">>
    ELSE insert_sql

_convert_alter_view_header(alter_sql) ==
  IF AlterHeaderEnd(alter_sql) # 0
    THEN <<"CREATE", "OR", "REPLACE", "VIEW", "BACKTICK",
           alter_sql[SkipSpace(alter_sql, SkipSpace(alter_sql, 2) + 1)], "BACKTICK", "AS">>
    ELSE alter_sql

\* Chunk types convert_chunks handles without converter_func.
IsHeaderType(chunk_type) == chunk_type \in {"insert_header", "alter_view_header"}

\* convert_chunks drops the chunk instead of converting it.
IsSkipped_never(chunk) == FALSE

IsSkipped(chunk) == chunk.chunk_type = "use"

\* The chunk is handed to converter_func.
NeedsTranslator(chunk) == ~IsHeaderType(chunk.chunk_type) /\ ~IsSkipped(chunk)

\* for chunk in chunks: the chunk of the pos-th iteration.
chunk_at_reversed(chunk_list, pos) == chunk_list[Len(chunk_list) + 1 - pos]

chunk_at(chunk_list, pos) == chunk_list[pos]

\* convert_chunks: the entry appended to converted_parts for a chunk.
ConvertedPart(chunk, converted) ==
  [type |-> chunk.chunk_type, name |-> chunk.name, content |-> converted,
   index |-> chunk.index]

\* sorted(parts, key=lambda x: x['index']): stable insertion sort.
RECURSIVE InsertByIndex(_, _)
InsertByIndex(sorted, part) ==
  IF sorted = <<>> THEN <<part>>
  ELSE IF sorted[Len(sorted)].index <= part.index THEN Append(sorted, part)
  ELSE Append(InsertByIndex(SubSeq(sorted, 1, Len(sorted) - 1), part), sorted[Len(sorted)])

RECURSIVE SortByIndex(_)
SortByIndex(parts) ==
  IF parts = <<>> THEN <<>>
  ELSE InsertByIndex(SortByIndex(SubSeq(parts, 1, Len(parts) - 1)), parts[Len(parts)])

IsCtePart(part) == part.type = "cte"

IsHeaderPart_never(part) == FALSE

IsHeaderPart(part) == IsHeaderType(part.type)

IsMainPart(part) == ~IsCtePart(part) /\ ~IsHeaderPart(part)

RECURSIVE Reverse(_)
Reverse(s) == IF s = <<>> THEN <<>> ELSE Append(Reverse(Tail(s)), Head(s))

\* _merge_parts
_merge_parts(parts) ==
  IF parts = <<>> THEN <<>>
  ELSE IF Len(parts) = 1 THEN parts[1].content
  ELSE
    LET sorted == SortByIndex(parts)
        cte_parts == SelectSeq(sorted, IsCtePart)
        headers == SelectSeq(sorted, IsHeaderPart)
        mains == SelectSeq(sorted, IsMainPart)
        main_parts == [i \in 1..Len(mains) |->
                         IF mains[i].type = "statement"
                           THEN Append(strip(mains[i].content), ";")
                           ELSE strip(mains[i].content)]
        cte_strs == [i \in 1..Len(cte_parts) |->
                       (IF i = 1 THEN <<"WITH">> ELSE <<",">>)
                       \o cte_parts[i].name \o <<"AS">> \o strip(cte_parts[i].content)]
        has_union == \E i \in 1..Len(sorted) :
                        sorted[i].type \in {"union_first", "union_part"}
        result_parts ==
          Reverse([i \in 1..Len(headers) |-> strip(headers[i].content)])
          \o (IF cte_parts # <<>> THEN << Join(cte_strs, <<"NL">>) >> ELSE <<>>)
          \o (IF main_parts # <<>>
                THEN << Join(main_parts,
                             IF has_union THEN <<"NL", "UNION", "ALL", "NL">> ELSE <<"NL">>) >>
                ELSE <<>>)
    IN  Join(result_parts, <<"NL">>)

\* The values state['hive_sql'] can have when convert_node runs: what
\* table_mapping_node makes of a request.
ConvertInputs ==
  {validate_and_replace(r, ok).sql : r \in RequestSqls, ok \in BOOLEAN}

\* chunker = SQLChunker(hive_sql): what chunker.should_chunk() and
\* chunker.analyze_and_chunk() return, for every such text.
SQLChunker ==
  [sql \in ConvertInputs |->
     [should_chunk |-> should_chunk(strip(sql)),
      analyze_and_chunk |-> analyze_and_chunk(strip(sql))]]

\* ---------------------------------------------------------------- routing
should_continue_after_hive_validation_always(hv) == "table_mapping"

should_continue_after_hive_validation(hv) ==
  IF hv THEN "table_mapping" ELSE "end"

should_retry_after_validation_off_by_one(success, retries, ceiling) ==
  IF success THEN "end"
  ELSE IF retries <= ceiling THEN "fix"
  ELSE "end"

should_retry_after_validation_ignores_success(success, retries, ceiling) ==
  IF retries < ceiling THEN "fix" ELSE "end"

should_retry_after_validation(success, retries, ceiling) ==
  IF success THEN "end"
  ELSE IF retries < ceiling THEN "fix"
  ELSE "end"

should_continue_after_mapping_always(merr) == "convert"

should_continue_after_mapping(merr) ==
  IF merr # None THEN "end" ELSE "convert"

\* ------------------------------------------------------------------ state
VARIABLES
  pc,                   \* node the graph runs next, "end" (END) or "raised"
  request_sql,          \* the hive_sql argument of run_conversion
  hive_validation_mode, \* os.getenv("HIVE_VALIDATION_MODE", "enabled")
  bq_validation_mode,   \* get_validation_mode()
  chunking_mode,        \* SQL_CHUNKING_MODE
  sql_chunker,          \* the functions of services/sql_chunker.py, tabulated
  hive_sql, hive_valid, hive_error, mapping_error, bigquery_sql,
  validation_success, validation_error, validation_mode,
  retry_count, max_retries, conversion_history,
  chunks,               \* convert_node: the list analyze_and_chunk returned
  chunk_pos,            \* convert_chunks: position of the loop in chunks
  converted_parts,      \* convert_chunks: converted_parts
  runs,                 \* concurrent run_conversion calls: each one's state
  cls_instance,         \* TableMappingService._instance (0 is None)
  cls_mappings,         \* TableMappingService._mappings
  cls_loaded,           \* TableMappingService._loaded
  instances_created,    \* ghost: super().__new__(cls) calls so far
  load_calls,           \* ghost: load_mappings calls so far
  trace,                \* nodes executed so far, in order
  hive_validator_calls, \* calls of the source validator: [sql, reply]
  translator_calls,     \* calls of the translator: [sql, reply]
  validator_calls,      \* calls of the target validator: [sql, sent, result]
  repair_calls,         \* calls of the repair oracle: the arguments of the prompt
  _log_buffer,          \* services/log_stream.py: _log_buffer, oldest entry first
  _subscribers,         \* services/log_stream.py: _subscribers (queues by stream)
  queue,                \* subscribe_logs: the asyncio.Queue of each stream
  stream,               \* subscribe_logs: where each generator is suspended
  emit_calls,           \* ghost: StreamingLogHandler.emit calls so far
  handle_error_calls    \* ghost: handleError calls made by emit so far

state == <<hive_sql, hive_valid, hive_error, mapping_error, bigquery_sql,
           validation_success, validation_error, validation_mode,
           retry_count, max_retries, conversion_history>>
config == <<request_sql, hive_validation_mode, bq_validation_mode, chunking_mode,
           sql_chunker>>
conversion == <<chunks, chunk_pos, converted_parts>>
calls == <<hive_validator_calls, translator_calls, validator_calls, repair_calls>>
\* The log stream of the service (services/log_stream.py).
log_stream == <<_log_buffer, _subscribers, queue, stream, emit_calls, handle_error_calls>>
\* What a single run_conversion call, taken alone, does not touch; the
\* records the run logs are left out of the model of the run.
outside == <<runs, cls_instance, cls_mappings, cls_loaded, instances_created, load_calls,
            log_stream>>

\* The streams a client can open with GET /logs/stream.
Streams == {"stream1", "stream2"}

\* subscribe_logs() was called for no stream and nothing was logged.
NoLogStream ==
  /\ _log_buffer = <<>>
  /\ _subscribers = <<>>
  /\ queue = [s \in Streams |-> <<>>]
  /\ stream = [s \in Streams |->
       [at |-> "created", snapshot |-> <<>>, received |-> <<>>,
        subscribed_at |-> 0, skipped |-> {}, heartbeat |-> FALSE]]
  /\ emit_calls = 0
  /\ handle_error_calls = 0
vars == <<pc, config, state, conversion, trace, calls, outside>>

\* Values of the environment variable HIVE_VALIDATION_MODE.
HiveValidationModes ==
  {"enabled", "on", "disabled", "skip", "off", "false", "0", "Off"}

\* str.lower() on those values.
lower(mode) == IF mode = "Off" THEN "off" ELSE mode

is_hive_validation_enabled_zero(mode) ==
  lower(mode) \notin {"disabled", "skip", "off", "false"}

\* is_hive_validation_enabled(), mode being what os.getenv returned
is_hive_validation_enabled(mode) ==
  lower(mode) \notin {"disabled", "skip", "off", "false", "0"}

\* run_conversion: initial_state, entry point validate_hive.
\* with HIVE_VALIDATION_MODE one of modes and a retry ceiling of ceilings.
InitWith(modes, ceilings) ==
  /\ pc = "validate_hive"
  /\ request_sql \in RequestSqls
  /\ hive_validation_mode \in modes
  /\ bq_validation_mode \in ValidationModes
  /\ chunking_mode \in ChunkingModes
  /\ sql_chunker = SQLChunker
  /\ hive_sql = request_sql
  /\ hive_valid = FALSE
  /\ hive_error = None
  /\ mapping_error = None
  /\ bigquery_sql = None
  /\ validation_success = FALSE
  /\ validation_error = None
  /\ validation_mode = None
  /\ retry_count = 0
  /\ max_retries \in ceilings
  /\ (request_sql \in StructuredSqls \/ chunking_mode # "auto") =>
        max_retries <= ChunkedRetriesBound
  /\ conversion_history = <<>>
  /\ chunks = <<>>
  /\ chunk_pos = 0
  /\ converted_parts = <<>>
  /\ trace = <<>>
  /\ hive_validator_calls = <<>>
  /\ translator_calls = <<>>
  /\ validator_calls = <<>>
  /\ repair_calls = <<>>
  /\ runs = <<>>
  /\ cls_instance = 1
  /\ cls_mappings = _mappings
  /\ cls_loaded = TRUE
  /\ instances_created = 1
  /\ load_calls = 1
  /\ NoLogStream

Init == InitWith({"enabled", "disabled"}, 0..MaxRetriesBound)

\* An exception raised inside a node leaves graph.invoke without a state
\* update: only the position changes.
Raise_swallowed(node) ==
  /\ pc' = "end"
  /\ trace' = Append(trace, node)
  /\ UNCHANGED <<outside, config, state, conversion, calls>>

Raise(node) ==
  /\ pc' = "raised"
  /\ trace' = Append(trace, node)
  /\ UNCHANGED <<outside, config, state, conversion, calls>>

\* ------------------------------------------------------------------ nodes
validate_hive_node ==
  /\ pc = "validate_hive"
  /\ \/ /\ ~is_hive_validation_enabled(hive_validation_mode)
        /\ hive_valid' = TRUE
        /\ hive_error' = None
        /\ UNCHANGED hive_validator_calls
     \/ /\ is_hive_validation_enabled(hive_validation_mode)
        /\ \E reply \in LlmJsonReplies :
             /\ hive_validator_calls' =
                  Append(hive_validator_calls, [sql |-> hive_sql, reply |-> reply])
             /\ IF reply.parsable
                  THEN /\ hive_valid' = reply.is_valid
                       /\ hive_error' = IF ~reply.is_valid THEN reply.error ELSE None
                  ELSE /\ hive_valid' = FALSE
                       /\ hive_error' = Some("Failed to validate Hive SQL")
  /\ pc' = should_continue_after_hive_validation(hive_valid')
  /\ trace' = Append(trace, "validate_hive")
  /\ UNCHANGED <<outside, config, conversion, hive_sql, mapping_error, bigquery_sql, validation_success,
                 validation_error, validation_mode, retry_count, max_retries,
                 conversion_history, translator_calls, validator_calls, repair_calls>>

\* get_llm() or llm.invoke raises in validate_hive_node, or the reply parses
\* to JSON that is not an object (result.get raises); only JSONDecodeError is
\* caught.
validate_hive_raises ==
  /\ pc = "validate_hive"
  /\ is_hive_validation_enabled(hive_validation_mode)
  /\ Raise("validate_hive")

table_mapping_node ==
  /\ pc = "table_mapping"
  /\ \E parse_ok \in BOOLEAN :
       LET r == validate_and_replace(hive_sql, parse_ok)
       IN  /\ hive_sql' = r.sql
           /\ mapping_error' = IF r.unmapped # {} THEN Some(r.unmapped) ELSE None
  /\ pc' = should_continue_after_mapping(mapping_error')
  /\ trace' = Append(trace, "table_mapping")
  /\ UNCHANGED <<outside, config, conversion, hive_valid, hive_error, bigquery_sql, validation_success,
                 validation_error, validation_mode, retry_count, max_retries,
                 conversion_history, calls>>

use_chunking_ignores_size(sql, mode) ==
  IF mode = "disabled" THEN FALSE ELSE TRUE

\* convert_node: use_chunking after SQL_CHUNKING_MODE was applied.
use_chunking(sql, mode) ==
  IF mode = "disabled" THEN FALSE
  ELSE IF mode = "always" THEN TRUE
  ELSE sql_chunker[sql].should_chunk

\* convert_node takes the ChunkedConverter branch.
UsesChunkedConverter(sql, mode) ==
  use_chunking(sql, mode) /\ Len(sql_chunker[sql].analyze_and_chunk) > 1

\* convert_node, direct conversion: chunking is off, or analyze_and_chunk
\* returned one chunk; one _convert_single_chunk call on the whole hive_sql.
convert_node ==
  /\ pc = "convert"
  /\ ~UsesChunkedConverter(hive_sql, chunking_mode)
  /\ \E reply \in LlmSqlReplies :
       /\ translator_calls' =
            Append(translator_calls, [sql |-> hive_sql, index |-> -1, reply |-> reply])
       /\ bigquery_sql' = Some(StripFence(reply))
  /\ retry_count' = 0
  /\ conversion_history' = <<>>
  /\ pc' = "validate"
  /\ trace' = Append(trace, "convert")
  /\ UNCHANGED <<outside, config, conversion, hive_sql, hive_valid, hive_error, mapping_error,
                 validation_success, validation_error, validation_mode, max_retries,
                 hive_validator_calls, validator_calls, repair_calls>>

\* convert_node, chunked conversion: analyze_and_chunk returned more than one
\* chunk and convert_chunks is entered.
convert_node_chunked ==
  /\ pc = "convert"
  /\ UsesChunkedConverter(hive_sql, chunking_mode)
  /\ chunks' = sql_chunker[hive_sql].analyze_and_chunk
  /\ chunk_pos' = 1
  /\ converted_parts' = <<>>
  /\ pc' = "convert_chunks"
  /\ UNCHANGED <<outside, config, state, trace, calls>>

\* ChunkedConverter.convert_chunks: one iteration of the loop over chunks.
convert_chunks ==
  /\ pc = "convert_chunks"
  /\ chunk_pos \in 1..Len(chunks)
  /\ LET chunk == chunk_at(chunks, chunk_pos)
     IN  \/ /\ chunk.chunk_type = "insert_header"
            /\ converted_parts' = Append(converted_parts,
                 ConvertedPart(chunk, _convert_insert_header(chunk.content)))
            /\ UNCHANGED translator_calls
         \/ /\ chunk.chunk_type = "alter_view_header"
            /\ converted_parts' = Append(converted_parts,
                 ConvertedPart(chunk, _convert_alter_view_header(chunk.content)))
            /\ UNCHANGED translator_calls
         \/ /\ IsSkipped(chunk)
            /\ UNCHANGED <<converted_parts, translator_calls>>
         \/ /\ NeedsTranslator(chunk)
            /\ \E reply \in LlmSqlReplies :
                 /\ translator_calls' = Append(translator_calls,
                      [sql |-> chunk.content, index |-> chunk.index, reply |-> reply])
                 /\ converted_parts' = Append(converted_parts,
                      ConvertedPart(chunk, StripFence(reply)))
  /\ chunk_pos' = chunk_pos + 1
  /\ UNCHANGED <<outside, pc, config, state, chunks, trace, hive_validator_calls,
                 validator_calls, repair_calls>>

\* convert_chunks returns _merge_parts(converted_parts) and convert_node
\* returns its state update.
convert_chunks_return ==
  /\ pc = "convert_chunks"
  /\ chunk_pos \notin 1..Len(chunks)
  /\ bigquery_sql' = Some(_merge_parts(converted_parts))
  /\ retry_count' = 0
  /\ conversion_history' = <<>>
  /\ pc' = "validate"
  /\ trace' = Append(trace, "convert")
  /\ UNCHANGED <<outside, config, conversion, hive_sql, hive_valid, hive_error, mapping_error,
                 validation_success, validation_error, validation_mode, max_retries,
                 calls>>

\* The translator call of _convert_single_chunk raises (get_llm or
\* llm.invoke), on the whole SQL or on a chunk; nothing catches it inside
\* convert_chunks or convert_node.
convert_raises ==
  /\ \/ pc = "convert" /\ ~UsesChunkedConverter(hive_sql, chunking_mode)
     \/ /\ pc = "convert_chunks"
        /\ chunk_pos \in 1..Len(chunks)
        /\ NeedsTranslator(chunk_at(chunks, chunk_pos))
  /\ Raise("convert")

validate_node ==
  /\ pc = "validate"
  /\ LET attempt == attempt_number(conversion_history)
         sql == bigquery_sql[1]
     IN \E result \in
             IF bq_validation_mode = "dry_run"
               THEN {validate_with_dry_run(o) : o \in DryRunOutcomes}
               ELSE {validate_with_llm(r) : r \in LlmJsonReplies} :
          /\ validator_calls' = Append(validator_calls,
               [sql |-> sql,
                sent |-> IF bq_validation_mode = "dry_run"
                           THEN replace_template_variables(sql) ELSE sql,
                result |-> result])
          /\ conversion_history' = append_history(conversion_history,
               ConversionHistory(attempt, sql,
                 IF ~result.success THEN result.error_message ELSE None))
          /\ validation_success' = result.success
          /\ validation_error' = result.error_message
          /\ validation_mode' = Some(result.validation_mode)
  /\ pc' = should_retry_after_validation(validation_success', retry_count, max_retries)
  /\ trace' = Append(trace, "validate")
  /\ UNCHANGED <<outside, config, conversion, hive_sql, hive_valid, hive_error, mapping_error, bigquery_sql,
                 retry_count, max_retries, hive_validator_calls, translator_calls,
                 repair_calls>>

\* BigQueryService() cannot be built (dry_run mode; what the dry run itself
\* raises is caught by dry_run), or the LLM call raises (llm mode).
validate_raises ==
  /\ pc = "validate"
  /\ Raise("validate")

fix_node ==
  /\ pc = "fix"
  /\ \E reply \in LlmSqlReplies, parse_ok \in BOOLEAN :
       /\ repair_calls' = Append(repair_calls,
            [hive_sql |-> hive_sql,
             bigquery_sql |-> bigquery_sql[1],
             error_message |-> validation_error,
             conversion_history |-> history_str(conversion_history),
             reply |-> reply])
       /\ bigquery_sql' = Some(replace_table_names(StripFence(reply), parse_ok))
  /\ retry_count' = next_retry_count(retry_count)
  /\ pc' = "validate"
  /\ trace' = Append(trace, "fix")
  /\ UNCHANGED <<outside, config, conversion, hive_sql, hive_valid, hive_error, mapping_error,
                 validation_success, validation_error, validation_mode, max_retries,
                 conversion_history, hive_validator_calls, translator_calls,
                 validator_calls>>

\* get_llm() or llm.invoke raises in fix_node.
fix_raises ==
  /\ pc = "fix"
  /\ Raise("fix")

Next ==
  \/ validate_hive_node
  \/ validate_hive_raises
  \/ table_mapping_node
  \/ convert_node
  \/ convert_node_chunked
  \/ convert_chunks
  \/ convert_chunks_return
  \/ convert_raises
  \/ validate_node
  \/ validate_raises
  \/ fix_node
  \/ fix_raises

Spec == Init /\ [][Next]_vars

\* graph.invoke runs the next node as soon as the previous one returned.
FairSpec == Spec /\ WF_vars(Next)

\* --------------------------------------------------------------- response
\* main.convert_sql: success = result["hive_valid"] and result["validation_success"]
response_success(hv, vs) == hv /\ vs

\* main.convert_sql: the warning is set when the source was valid, the last
\* candidate was not accepted and retry_count >= max_retries.
response_warning_strict(hv, vs, retries, ceiling) ==
  IF hv /\ ~vs /\ retries > ceiling
    THEN Some("Maximum retries exceeded. The converted SQL may still contain errors.")
    ELSE None

response_warning(hv, vs, retries, ceiling) ==
  IF hv /\ ~vs /\ retries >= ceiling
    THEN Some("Maximum retries exceeded. The converted SQL may still contain errors.")
    ELSE None

\* The ConvertResponse convert_sql builds from the state run_conversion
\* returned (the state of a run that is at END).
ConvertResponse ==
  [success |-> response_success(hive_valid, validation_success),
   hive_sql |-> hive_sql,
   hive_valid |-> hive_valid,
   hive_error |-> hive_error,
   bigquery_sql |-> bigquery_sql,
   validation_success |-> validation_success,
   validation_error |-> validation_error,
   validation_mode |-> validation_mode,
   retry_count |-> retry_count,
   conversion_history |-> conversion_history,
   warning |-> response_warning(hive_valid, validation_success, retry_count, max_retries)]

\* convert_sql returned a ConvertResponse / raised an HTTPException.
Responded == pc = "end"

HttpError == pc = "raised"

\* ======================================================== derived notions
\* Number of executions of a node so far (an execution that raised counts).
NodeRuns(node) == Cardinality({i \in 1..Len(trace) : trace[i] = node})

LastNode == IF trace = <<>> THEN "" ELSE trace[Len(trace)]

\* The run has left graph.invoke: no node is left to run.
Stopped == ~ENABLED Next

IsPrefix(s, t) == Len(s) <= Len(t) /\ SubSeq(t, 1, Len(s)) = s

\* The four reasons for which the graph routes to END.
SourceInvalid == hive_valid = FALSE
MappingUnresolved == mapping_error # None
TargetValid == validation_success = TRUE
RetriesExhausted ==
  /\ conversion_history # <<>>
  /\ ~validation_success
  /\ retry_count >= max_retries

ExitReasons ==
  {r \in {"source_invalid", "mapping_unresolved", "target_valid", "retries_exhausted"} :
     \/ r = "source_invalid" /\ SourceInvalid
     \/ r = "mapping_unresolved" /\ MappingUnresolved
     \/ r = "target_valid" /\ TargetValid
     \/ r = "retries_exhausted" /\ RetriesExhausted}

\* ------------------------------------------------------------------- C1
\* C1 as stated: a run that got to Validate (so Convert returned) and has
\* stopped is at End, having executed Validate at most max_retries + 1 times.
C1_Original ==
  (Stopped /\ NodeRuns("validate") >= 1) =>
     (pc = "end" /\ NodeRuns("validate") <= max_retries + 1)

\* C1 amended: Validate is never executed more than max_retries + 1 times, and
\* a run that reaches Convert always stops: at End, or aborted by an exception
\* that propagates out of graph.invoke.  The Validate/Fix loop cannot run
\* forever.
C1_BoundedLoop ==
  /\ [](NodeRuns("validate") <= max_retries + 1)
  /\ ((pc = "convert") ~> (pc \in {"end", "raised"}))

\* The loop ran to its ceiling: max_retries + 1 Validate executions, then End.
C1_Witness ==
  /\ pc = "end"
  /\ max_retries >= 1
  /\ NodeRuns("validate") = max_retries + 1
  /\ NodeRuns("fix") = max_retries

\* ------------------------------------------------------------------- C2
\* C2 as stated: whenever a run has stopped, exactly one of the four reasons
\* (source invalid, mapping unresolved, target valid, retries exhausted) holds.
C2_Original == Stopped => Cardinality(ExitReasons) = 1

\* C2 amended: a run that has stopped either returned a final state at End,
\* and then exactly one of the four reasons holds and the last node run is the
\* one that decides it, or it was aborted by an exception raised inside a node.
C2_ExitReasons ==
  Stopped =>
    \/ /\ pc = "end"
       /\ Cardinality(ExitReasons) = 1
       /\ SourceInvalid => LastNode = "validate_hive"
       /\ MappingUnresolved => LastNode = "table_mapping"
       /\ (TargetValid \/ RetriesExhausted) => LastNode = "validate"
    \/ /\ pc = "raised"
       /\ LastNode \in {"validate_hive", "convert", "validate", "fix"}

\* A run that ended because the retries were used up.
C2_Witness == pc = "end" /\ RetriesExhausted /\ retry_count >= 1

\* ------------------------------------------------------------------- C3
\* C3: after every Validate step that returned, an accepted candidate leads to
\* End, a rejected one leads to Fix while retry_count < max_retries and to End
\* otherwise; Fix never runs on an accepted candidate.
C3_RoutingAfterValidate ==
  /\ [][(pc = "validate" /\ pc' # "raised") =>
          LET accepted == validator_calls'[Len(validator_calls')].result.success
          IN  /\ Len(validator_calls') = Len(validator_calls) + 1
              /\ accepted => pc' = "end"
              /\ (~accepted /\ retry_count' < max_retries') => pc' = "fix"
              /\ (~accepted /\ retry_count' >= max_retries') => pc' = "end"]_vars
  /\ [](pc = "fix" =>
          ~validator_calls[Len(validator_calls)].result.success)

\* A second rejected Validate that still routes to Fix.
C3_Witness ==
  /\ pc = "fix"
  /\ LastNode = "validate"
  /\ retry_count = 1
  /\ ~validation_success

\* ------------------------------------------------------------------- C4
\* C4: once ValidateSource has yielded hive_valid = false the run is at End
\* and ValidateSource is the only node that ran: hive_error carries the error
\* of the validator's reply (the parse-failure message when the reply could
\* not be parsed), the SQL was not rewritten, no candidate exists, retry_count
\* is 0, the history is empty and no other external collaborator was called.
C4_SourceInvalidStops ==
  (trace # <<>> /\ pc # "raised" /\ ~hive_valid) =>
     /\ pc = "end"
     /\ trace = <<"validate_hive">>
     /\ Len(hive_validator_calls) = 1
     /\ LET reply == hive_validator_calls[1].reply
        IN  /\ reply.parsable => ~reply.is_valid /\ hive_error = reply.error
            /\ ~reply.parsable => hive_error = Some("Failed to validate Hive SQL")
     /\ hive_sql = request_sql
     /\ mapping_error = None
     /\ bigquery_sql = None
     /\ retry_count = 0
     /\ conversion_history = <<>>
     /\ translator_calls = <<>>
     /\ validator_calls = <<>>
     /\ repair_calls = <<>>

\* The source validator reported the SQL invalid with an error text.
C4_Witness ==
  /\ pc = "end"
  /\ ~hive_valid
  /\ hive_error = Some("syntax error")

\* ------------------------------------------------------------------- C5
\* C5: once table mapping has reported unmapped tables the run is at End right
\* after that step, mapping_error names exactly the tables of the submitted
\* SQL that have no mapping, and Convert, Validate and Fix never ran: the
\* translator was not called, bigquery_sql is none and the history is empty.
C5_MappingUnresolvedStops ==
  mapping_error # None =>
     /\ pc = "end"
     /\ trace = <<"validate_hive", "table_mapping">>
     /\ mapping_error[1] # {}
     /\ mapping_error[1] =
          {t \in TableNames \ DOMAIN _mappings :
             \E i \in 1..Len(request_sql) : request_sql[i] = t}
     /\ translator_calls = <<>>
     /\ validator_calls = <<>>
     /\ repair_calls = <<>>
     /\ bigquery_sql = None
     /\ retry_count = 0
     /\ conversion_history = <<>>

\* A request joining a mapped and an unmapped table stopped at table mapping.
C5_Witness ==
  /\ pc = "end"
  /\ mapping_error = Some({"h2"})
  /\ hive_sql # request_sql

\* ------------------------------------------------------------------- C6
\* C6: at End of a run that reached Validate, with k the number of verdicts
\* the validator gave: the first k-1 verdicts are rejections, history length
\* is k = retry_count + 1, and either the k-th verdict is an acceptance and
\* validation_success is true with retry_count = k-1 <= max_retries, or every
\* verdict is a rejection and validation_success is false with
\* retry_count = max_retries and history length max_retries + 1.
C6_RetryAccounting ==
  (pc = "end" /\ validator_calls # <<>>) =>
     LET k == Len(validator_calls)
         accepted(i) == validator_calls[i].result.success
     IN  /\ \A i \in 1..(k - 1) : ~accepted(i)
         /\ Len(conversion_history) = k
         /\ Len(conversion_history) = retry_count + 1
         /\ IF accepted(k)
              THEN /\ validation_success
                   /\ retry_count = k - 1
                   /\ k <= max_retries + 1
              ELSE /\ ~validation_success
                   /\ retry_count = max_retries
                   /\ Len(conversion_history) = max_retries + 1

\* max_retries = 2, attempts 1 and 2 rejected, attempt 3 accepted.
C6_Witness ==
  /\ pc = "end"
  /\ max_retries = 2
  /\ validation_success
  /\ retry_count = 2
  /\ Len(conversion_history) = 3

\* ------------------------------------------------------------------- C7
\* C7: in every reachable state the i-th history entry has attempt = i and
\* holds the candidate SQL that was handed to the i-th Validate step.
C7_AttemptNumbering ==
  /\ Len(conversion_history) = Len(validator_calls)
  /\ \A i \in 1..Len(conversion_history) :
       /\ conversion_history[i].attempt = i
       /\ conversion_history[i].bigquery_sql = validator_calls[i].sql

\* Three attempts recorded, the candidates of attempts 1 and 2 differing.
C7_Witness ==
  /\ Len(conversion_history) = 3
  /\ conversion_history[1].bigquery_sql # conversion_history[2].bigquery_sql

\* ------------------------------------------------------------------- C8
\* C8: every step leaves the history recorded so far as a prefix of the new
\* history, and Fix leaves the history unchanged.
C8_HistoryAppendOnly ==
  [][/\ IsPrefix(conversion_history, conversion_history')
     /\ pc = "fix" => conversion_history' = conversion_history]_vars

\* Fix ran twice on a history that Validate then extended to three entries.
C8_Witness ==
  /\ NodeRuns("fix") = 2
  /\ LastNode = "validate"
  /\ Len(conversion_history) = 3

\* ------------------------------------------------------------------- C9
\* C9 as stated: a history entry carries an error if and only if the
\* validator rejected that attempt's candidate.
C9_ErrorIffRejected ==
  \A i \in 1..Len(conversion_history) :
    i <= Len(validator_calls) =>
      ((conversion_history[i].error # None) <=> ~validator_calls[i].result.success)

\* ------------------------------------------------------------------ C10
IsAttemptLine(l) == l.line = "Attempt"

IsSqlLine(l) == l.line = "SQL"

\* C10 as stated: every call of the repair oracle is given the SQL of the
\* request as submitted, the candidate that just failed and its error, and
\* the history of all attempts so far in ascending attempt order.
C10_RepairInputs ==
  \A n \in 1..Len(repair_calls) :
    LET call == repair_calls[n]
        attempts == SelectSeq(call.conversion_history, IsAttemptLine)
        sqls == SelectSeq(call.conversion_history, IsSqlLine)
    IN  /\ call.hive_sql = request_sql
        /\ call.bigquery_sql = conversion_history[n].bigquery_sql
        /\ ~validator_calls[n].result.success
        /\ call.error_message = validator_calls[n].result.error_message
        /\ Len(attempts) = n
        /\ Len(sqls) = n
        /\ \A j \in 1..n :
             /\ attempts[j].attempt = j
             /\ sqls[j].sql = conversion_history[j].bigquery_sql

\* ------------------------------------------------------------------ C11
\* C11 as stated: whatever the outcome of the run, the hive_sql field of the
\* ConvertResponse equals the hive_sql of the request.
C11_ResponseEchoesRequest ==
  Responded => ConvertResponse.hive_sql = request_sql

\* ------------------------------------------------------------------ C12
\* C12: when a run ends because the last candidate was rejected with
\* retry_count >= max_retries, convert_sql returns a response (no error is
\* raised) whose bigquery_sql is the candidate of the final attempt, whose
\* success is false and whose warning is a non-empty text.
C12_RetriesExhaustedResponse ==
  [][(/\ pc = "validate"
      /\ Len(validator_calls') = Len(validator_calls) + 1
      /\ ~validator_calls'[Len(validator_calls')].result.success
      /\ retry_count >= max_retries) =>
        /\ Responded'
        /\ ~HttpError'
        /\ ConvertResponse'.bigquery_sql # None
        /\ ConvertResponse'.bigquery_sql = Some(validator_calls'[Len(validator_calls')].sql)
        /\ ConvertResponse'.bigquery_sql = bigquery_sql
        /\ ConvertResponse'.success = FALSE
        /\ ConvertResponse'.warning # None
        /\ ConvertResponse'.warning # Some("")
        /\ ConvertResponse'.retry_count = max_retries]_vars

\* Two repairs were tried, the third candidate was rejected too and differs
\* from the first one.
C12_Witness ==
  /\ Responded
  /\ max_retries = 2
  /\ retry_count = 2
  /\ ~validation_success
  /\ Len(conversion_history) = 3
  /\ bigquery_sql # Some(conversion_history[1].bigquery_sql)

\* ------------------------------------------------------------------ C13
\* Chunks ahead of position pos that convert_chunks hands to the translator.
TranslatedBefore(pos) == {i \in 1..(pos - 1) : NeedsTranslator(chunks[i])}

\* C13: when Convert ran and left no candidate (a translator call failed, on
\* the whole SQL or on a chunk), the run was aborted by the exception and
\* nothing runs afterwards: Validate and Fix were never executed, Convert was
\* not executed again, and the translator was called only for the chunks
\* ahead of the failing one, once each.
C13_TranslatorFailurePropagates ==
  (LastNode = "convert" /\ bigquery_sql = None) =>
     /\ HttpError
     /\ Stopped
     /\ NodeRuns("convert") = 1
     /\ NodeRuns("validate") = 0
     /\ NodeRuns("fix") = 0
     /\ validator_calls = <<>>
     /\ repair_calls = <<>>
     /\ conversion_history = <<>>
     /\ IF chunks = <<>>
          THEN translator_calls = <<>>
          ELSE /\ chunk_pos \in 1..Len(chunks)
               /\ NeedsTranslator(chunks[chunk_pos])
               /\ Len(translator_calls) = Cardinality(TranslatedBefore(chunk_pos))
               /\ \A n \in 1..Len(translator_calls) :
                    /\ translator_calls[n].index < chunks[chunk_pos].index
                    /\ \A m \in 1..Len(translator_calls) :
                         translator_calls[m].index = translator_calls[n].index => m = n

\* The translator failed on the second chunk it was asked to convert.
C13_Witness ==
  /\ HttpError
  /\ LastNode = "convert"
  /\ Len(chunks) >= 2
  /\ Len(translator_calls) = 1
  /\ Cardinality({i \in 1..Len(chunks) : NeedsTranslator(chunks[i])}) >= 2

\* ------------------------------------------------------------------ C14
\* The verdict does not come from the validator: the dry run itself failed
\* with an exception other than BadRequest (network, authentication).
TransportFailure(result) ==
  /\ result.validation_mode = "dry_run"
  /\ result.error_message = Some("Unexpected error")

\* C14 as stated: a run is about to execute Fix only when the target
\* validator judged the candidate invalid, never because the external call
\* itself failed.
C14_FixOnlyOnRejection ==
  pc = "fix" =>
    /\ ~validator_calls[Len(validator_calls)].result.success
    /\ ~TransportFailure(validator_calls[Len(validator_calls)].result)

\* ------------------------------------------------------------------ C15
\* The translator was called for the chunk (the call has returned).
Translated(chunk, log) ==
  \E n \in 1..Len(log) : log[n].index = chunk.index /\ log[n].sql = chunk.content

\* C15: in chunked conversion every step makes at most one translator call;
\* a call for a chunk is made only when the call of every lower-indexed chunk
\* that goes to the translator has returned, so the calls are in strictly
\* increasing index order; and the parts are merged only after the call of
\* every such chunk has returned.
C15_SequentialChunkCalls ==
  /\ [][pc = "convert_chunks" =>
          /\ Len(translator_calls') \in {Len(translator_calls), Len(translator_calls) + 1}
          /\ Len(translator_calls') = Len(translator_calls) + 1 =>
               LET call == translator_calls'[Len(translator_calls')]
               IN  /\ SubSeq(translator_calls', 1, Len(translator_calls)) = translator_calls
                   /\ \A n \in 1..Len(translator_calls) :
                        translator_calls[n].index < call.index
                   /\ \A i \in 1..Len(chunks) :
                        (NeedsTranslator(chunks[i]) /\ chunks[i].index < call.index) =>
                           Translated(chunks[i], translator_calls)
          /\ bigquery_sql' # bigquery_sql =>
               /\ translator_calls' = translator_calls
               /\ \A i \in 1..Len(chunks) :
                    NeedsTranslator(chunks[i]) => Translated(chunks[i], translator_calls)]_vars
  /\ [](pc = "convert_chunks" => bigquery_sql = None)

\* A chunked conversion that made two translator calls has been merged.
C15_Witness ==
  /\ pc = "validate"
  /\ LastNode = "convert"
  /\ Len(chunks) >= 2
  /\ Len(translator_calls) = 2
  /\ translator_calls[1].index = 0
  /\ translator_calls[2].index = 1

\* ------------------------------------------------------------------ C16
\* The calls of the translator made for a chunk.
CallsFor(chunk) ==
  {n \in 1..Len(translator_calls) :
     translator_calls[n].index = chunk.index /\ translator_calls[n].sql = chunk.content}

IsInfix(s, t) ==
  \E k \in 0..(Len(t) - Len(s)) : SubSeq(t, k + 1, k + Len(s)) = s

\* Convert has returned and no repair has replaced its candidate yet.
ConvertReturned == bigquery_sql # None /\ NodeRuns("fix") = 0

\* C16 as stated: after a chunked conversion every chunk that is not a use
\* chunk was passed to the translator exactly once; after a conversion that
\* was not chunked the translator was called exactly once, on the whole SQL.
C16_Original ==
  ConvertReturned =>
    IF chunks # <<>>
      THEN \A i \in 1..Len(chunks) :
             chunks[i].chunk_type # "use" => Cardinality(CallsFor(chunks[i])) = 1
      ELSE /\ Len(translator_calls) = 1
           /\ translator_calls[1].sql = hive_sql

\* C16 amended: after a chunked conversion (more than one chunk) every chunk
\* other than a use chunk and the insert_header / alter_view_header chunk was
\* passed to the translator exactly once, and the reply (code fence removed)
\* is the content of its part; the header chunk was rewritten locally without
\* a translator call and use chunks have no part and no call; the candidate
\* is the merge of the parts and contains every part's text.  After a
\* conversion that was not chunked the translator was called exactly once,
\* on the whole SQL, and its reply (code fence removed) is the candidate.
C16_ChunksTranslatedOnce ==
  ConvertReturned =>
    IF chunks # <<>>
      THEN /\ Len(chunks) > 1
           /\ Len(translator_calls) =
                Cardinality({i \in 1..Len(chunks) : NeedsTranslator(chunks[i])})
           /\ Len(converted_parts) =
                Cardinality({i \in 1..Len(chunks) : chunks[i].chunk_type # "use"})
           /\ \A i \in 1..Len(chunks) :
                LET chunk == chunks[i]
                    parts == {k \in 1..Len(converted_parts) :
                                converted_parts[k].index = chunk.index}
                IN  /\ chunk.chunk_type = "use" =>
                         CallsFor(chunk) = {} /\ parts = {}
                    /\ IsHeaderType(chunk.chunk_type) =>
                         /\ CallsFor(chunk) = {}
                         /\ Cardinality(parts) = 1
                         /\ \A k \in parts : converted_parts[k].content # chunk.content
                    /\ NeedsTranslator(chunk) =>
                         /\ Cardinality(CallsFor(chunk)) = 1
                         /\ Cardinality(parts) = 1
                         /\ \A n \in CallsFor(chunk), k \in parts :
                              /\ converted_parts[k].content =
                                   StripFence(translator_calls[n].reply)
                              /\ converted_parts[k].type = chunk.chunk_type
           /\ bigquery_sql = Some(_merge_parts(converted_parts))
           /\ \A k \in 1..Len(converted_parts) :
                IsInfix(strip(converted_parts[k].content), bigquery_sql[1])
      ELSE /\ Len(translator_calls) = 1
           /\ translator_calls[1].sql = hive_sql
           /\ translator_calls[1].index = -1
           /\ bigquery_sql = Some(StripFence(translator_calls[1].reply))

\* A batch of a use statement and two selects was converted chunk by chunk,
\* the two translations being different texts.
C16_Witness ==
  /\ ConvertReturned
  /\ Len(chunks) = 3
  /\ chunks[1].chunk_type = "use"
  /\ Len(converted_parts) = 2
  /\ converted_parts[1].content # converted_parts[2].content

\* ------------------------------------------------------------------ C19
\* The number of lines of a text.
LineCount(sql) == CountNewlines(sql) + 1

\* The classifier finds no decomposable structure in the text.
NoStructure(sql) ==
  /\ ~_has_multiple_statements(sql)
  /\ ~_is_insert_select(sql)
  /\ ~_is_alter_view(sql)
  /\ ~_has_cte(sql)
  /\ ~_has_union(sql)

Decomposed == chunks # <<>>

TranslatedAsOneUnit ==
  /\ chunks = <<>>
  /\ Len(translator_calls) = 1
  /\ translator_calls[1].sql = hive_sql
  /\ translator_calls[1].index = -1

\* C19: in auto mode Convert decomposes the SQL only if its length exceeds
\* MAX_SQL_LENGTH or its line count exceeds MAX_SQL_LINES, and a SQL at or
\* below both thresholds is translated as one unit whatever its structure;
\* in always mode a SQL without decomposable structure is translated as one
\* unit; in disabled mode no SQL is ever decomposed.
C19_ChunkingGate ==
  LET sql == strip(hive_sql)
  IN  /\ (chunking_mode = "auto" /\ Decomposed) =>
           (Len(sql) > MAX_SQL_LENGTH \/ LineCount(sql) > MAX_SQL_LINES)
      /\ (chunking_mode = "auto" /\ bigquery_sql # None
            /\ Len(sql) <= MAX_SQL_LENGTH /\ LineCount(sql) <= MAX_SQL_LINES) =>
           TranslatedAsOneUnit
      /\ (chunking_mode = "always" /\ bigquery_sql # None /\ NoStructure(sql)) =>
           TranslatedAsOneUnit
      /\ chunking_mode = "disabled" => ~Decomposed
      /\ (chunking_mode = "disabled" /\ bigquery_sql # None) => TranslatedAsOneUnit

\* A batch of statements below both thresholds went through Convert in auto
\* mode as one unit.
C19_Witness ==
  /\ chunking_mode = "auto"
  /\ bigquery_sql # None
  /\ _has_multiple_statements(strip(hive_sql))
  /\ Len(strip(hive_sql)) <= MAX_SQL_LENGTH
  /\ LineCount(strip(hive_sql)) <= MAX_SQL_LINES
  /\ TranslatedAsOneUnit

\* ------------------------------------------------- CTE decomposition alone
\* SQLChunker and ChunkedConverter._merge_parts applied, outside a run, to
\* queries WITH n1 AS (d1), ..., nk AS (dk) <main> and an identity translator.
MaxCtes == 2

\* The i-th CTE is named c<i>.
CteNames == <<"c1", "c2", "c3", "c4">>

\* Parenthesised definitions: a plain select, a nested subquery, a string
\* literal holding a parenthesis, a string literal holding an escaped quote
\* and a parenthesis, and a select ending in a line comment that holds an
\* apostrophe.
CteDefinitions ==
  { <<"(", "SELECT", "1", ")">>,
    <<"(", "SELECT", "FROM", "(", "SELECT", "1", ")", ")">>,
    <<"(", "SELECT", "'", ")", "'", ")">>,
    <<"(", "SELECT", "'", "\\'", "(", "'", ")">>,
    <<"(", "SELECT", "1", "--", "'", "NL", ")">> }

CteMainQueries ==
  { <<"SELECT", "FROM", "c1">>,
    <<"SELECT", "1", "UNION", "ALL", "SELECT", "2">> }

\* A query as its k definitions and its main body.
CteQueries ==
  UNION { [definitions : [1..k -> CteDefinitions], main_query : CteMainQueries] :
            k \in 1..MaxCtes }

\* n1 AS (d1), ..., nk AS (dk)
RECURSIVE CteList(_, _)
CteList(definitions, i) ==
  IF i > Len(definitions) THEN <<>>
  ELSE (IF i = 1 THEN <<>> ELSE <<",">>)
       \o <<CteNames[i], "AS">> \o definitions[i] \o CteList(definitions, i + 1)

\* WITH n1 AS (d1), ..., nk AS (dk) <main>
CteQueryText(q) == <<"WITH">> \o CteList(q.definitions, 1) \o q.main_query

\* A function is about to be applied to a text of inputs: the variables of
\* the conversion.
FunctionState(start, inputs) ==
  /\ pc = start
  /\ request_sql \in inputs
  /\ hive_validation_mode = "disabled"
  /\ bq_validation_mode = "dry_run"
  /\ chunking_mode = "always"
  /\ sql_chunker = <<>>
  /\ hive_sql = request_sql
  /\ hive_valid = TRUE
  /\ hive_error = None
  /\ mapping_error = None
  /\ bigquery_sql = None
  /\ validation_success = FALSE
  /\ validation_error = None
  /\ validation_mode = None
  /\ retry_count = 0
  /\ max_retries = 0
  /\ conversion_history = <<>>
  /\ chunks = <<>>
  /\ chunk_pos = 0
  /\ converted_parts = <<>>
  /\ trace = <<>>
  /\ hive_validator_calls = <<>>
  /\ translator_calls = <<>>
  /\ validator_calls = <<>>
  /\ repair_calls = <<>>
  /\ runs = <<>>
  /\ cls_instance = 1
  /\ cls_mappings = _mappings
  /\ cls_loaded = TRUE
  /\ instances_created = 1
  /\ load_calls = 1

\* chunk_and_convert(sql, converter_func) is called with a text of inputs.
FunctionInit(start, inputs) == FunctionState(start, inputs) /\ NoLogStream

ChunkerInit(inputs) == FunctionInit("analyze_and_chunk", inputs)

ChunkInit == ChunkerInit({CteQueryText(q) : q \in CteQueries})

\* chunks = SQLChunker(sql).analyze_and_chunk()
ApplyAnalyzeAndChunk ==
  /\ pc = "analyze_and_chunk"
  /\ chunks' = analyze_and_chunk(strip(hive_sql))
  /\ chunk_pos' = 1
  /\ pc' = "identity_translator"
  /\ UNCHANGED <<outside, config, state, converted_parts, trace, calls>>

\* One chunk through a converter_func that returns its argument.
ApplyIdentityTranslator ==
  /\ pc = "identity_translator"
  /\ Len(chunks) > 1
  /\ chunk_pos \in 1..Len(chunks)
  /\ LET chunk == chunk_at(chunks, chunk_pos)
     IN  converted_parts' =
           IF chunk.chunk_type = "insert_header"
             THEN Append(converted_parts,
                         ConvertedPart(chunk, _convert_insert_header(chunk.content)))
           ELSE IF chunk.chunk_type = "alter_view_header"
             THEN Append(converted_parts,
                         ConvertedPart(chunk, _convert_alter_view_header(chunk.content)))
           ELSE IF IsSkipped(chunk) THEN converted_parts
           ELSE Append(converted_parts, ConvertedPart(chunk, chunk.content))
  /\ chunk_pos' = chunk_pos + 1
  /\ UNCHANGED <<outside, pc, config, state, chunks, trace, calls>>

\* _merge_parts(converted_parts)
ApplyMergeParts ==
  /\ pc = "identity_translator"
  /\ Len(chunks) > 1
  /\ chunk_pos \notin 1..Len(chunks)
  /\ bigquery_sql' = Some(_merge_parts(converted_parts))
  /\ pc' = "merged"
  /\ UNCHANGED <<outside, config, hive_sql, hive_valid, hive_error, mapping_error,
                 validation_success, validation_error, validation_mode,
                 retry_count, max_retries, conversion_history, conversion,
                 trace, calls>>

\* len(chunks) <= 1: converter_func(sql) on the whole text.
ApplyWholeTranslator ==
  /\ pc = "identity_translator"
  /\ Len(chunks) <= 1
  /\ bigquery_sql' = Some(hive_sql)
  /\ pc' = "merged"
  /\ UNCHANGED <<outside, config, hive_sql, hive_valid, hive_error, mapping_error,
                 validation_success, validation_error, validation_mode,
                 retry_count, max_retries, conversion_history, conversion,
                 trace, calls>>

ChunkNext ==
  \/ ApplyAnalyzeAndChunk
  \/ ApplyIdentityTranslator
  \/ ApplyWholeTranslator
  \/ ApplyMergeParts

ChunkSpec == ChunkInit /\ [][ChunkNext]_vars

\* ------------------------------------------------------------------ C20
\* A text without its line breaks: two texts equal up to layout.
WithoutLayout(sql) == SelectSeq(sql, IsNotNewline)

\* The chunks are k cte chunks named n1..nk in source order, each holding
\* its parenthesised definition, followed by one main chunk.
IsCteDecomposition(chunk_list, q) ==
  LET k == Len(q.definitions)
  IN  /\ Len(chunk_list) = k + 1
      /\ \A i \in 1..k :
           /\ chunk_list[i].chunk_type = "cte"
           /\ chunk_list[i].name = Some(CteNames[i])
           /\ chunk_list[i].content = q.definitions[i]
      /\ chunk_list[k + 1].chunk_type = "main"
      /\ chunk_list[k + 1].content = q.main_query

\* C20: for every query WITH n1 AS (d1), ..., nk AS (dk) <main>,
\* decomposition yields exactly k cte chunks named n1..nk in source order,
\* each with its parenthesised definition as content, followed by one main
\* chunk, and merging them after an identity translation yields
\* WITH n1 AS (d1), ..., nk AS (dk) followed by the main body (up to layout).
C20_CteRoundTrip ==
  \A q \in CteQueries :
    hive_sql = CteQueryText(q) =>
      /\ pc # "analyze_and_chunk" => IsCteDecomposition(chunks, q)
      /\ pc = "merged" =>
           WithoutLayout(bigquery_sql[1]) = WithoutLayout(CteQueryText(q))

\* The same statement for the queries none of whose definitions holds a
\* comment: it holds, so the comment is what breaks the round trip.
HasComment(definition) == \E i \in 1..Len(definition) : definition[i] = "--"

C20_RoundTripWithoutComments ==
  \A q \in CteQueries :
    (hive_sql = CteQueryText(q)
       /\ \A i \in 1..Len(q.definitions) : ~HasComment(q.definitions[i])) =>
      /\ pc # "analyze_and_chunk" => IsCteDecomposition(chunks, q)
      /\ pc = "merged" =>
           WithoutLayout(bigquery_sql[1]) = WithoutLayout(CteQueryText(q))

\* ---------------------------------------------------- two concurrent runs
\* Two run_conversion calls running in two threads of one process.  Each call
\* builds its own graph and its own initial_state (graph.py:150-168); what
\* the two share is the class TableMappingService, reached through
\* get_table_mapping_service() in table_mapping_node and fix_node.  Hive
\* validation is switched off, validation is by dry run, and the requests
\* are below both chunking thresholds.
RunIds == {1, 2}

ConcurrentRetriesBound == 1

ConcurrentRequests == { <<"SELECT", "FROM", "h1">>, <<"SELECT", "FROM", "h2">> }

ConcurrentReplies ==
  { <<"SELECT", "FROM", "b1">>, <<"FENCE", "SELECT", "FROM", "h1", "FENCE">> }

ConcurrentOutcomes == {"ok", "BadRequest"}

\* The rows of the mapping CSV, in file order: h2 has an empty BigQuery
\* column, h1 maps to b1.
CsvRows ==
  << [hive_table |-> "h2", bigquery_table |-> ""],
     [hive_table |-> "h1", bigquery_table |-> "b1"] >>

\* run_conversion: initial_state
initial_state(sql, ceiling) ==
  [hive_sql |-> sql, hive_valid |-> FALSE, hive_error |-> None,
   mapping_error |-> None, bigquery_sql |-> None, validation_success |-> FALSE,
   validation_error |-> None, validation_mode |-> None, retry_count |-> 0,
   max_retries |-> ceiling, conversion_history |-> <<>>]

\* What graph.invoke makes of the state s when it runs node with the
\* collaborators answering as in answer and the mapping service holding
\* mappings: the merged state and the node the edges select.
node_result(mappings, s, node, answer) ==
  IF answer.raised THEN [node |-> "raised", state |-> s]
  ELSE CASE node = "validate_hive" ->
         [node |-> should_continue_after_hive_validation(TRUE),
          state |-> [s EXCEPT !.hive_valid = TRUE, !.hive_error = None]]
    [] node = "table_mapping" ->
         LET r == validate_and_replace_with(mappings, s.hive_sql, answer.parse_ok)
             merr == IF r.unmapped # {} THEN Some(r.unmapped) ELSE None
         IN  [node |-> should_continue_after_mapping(merr),
              state |-> [s EXCEPT !.hive_sql = r.sql, !.mapping_error = merr]]
    [] node = "convert" ->
         [node |-> "validate",
          state |-> [s EXCEPT !.bigquery_sql = Some(StripFence(answer.reply)),
                              !.retry_count = 0,
                              !.conversion_history = <<>>]]
    [] node = "validate" ->
         LET result == validate_with_dry_run(answer.outcome)
             entry == ConversionHistory(attempt_number(s.conversion_history),
                        s.bigquery_sql[1],
                        IF ~result.success THEN result.error_message ELSE None)
         IN  [node |-> should_retry_after_validation(result.success, s.retry_count,
                                                     s.max_retries),
              state |-> [s EXCEPT !.validation_success = result.success,
                                  !.validation_error = result.error_message,
                                  !.validation_mode = Some(result.validation_mode),
                                  !.conversion_history =
                                     append_history(s.conversion_history, entry)]]
    [] node = "fix" ->
         [node |-> "validate",
          state |-> [s EXCEPT !.bigquery_sql =
                                 Some(validate_and_replace_with(mappings,
                                        StripFence(answer.reply), answer.parse_ok).sql),
                              !.retry_count = next_retry_count(s.retry_count)]]

\* The answers a node can get from its collaborators.
Raised == [raised |-> TRUE, parse_ok |-> FALSE, reply |-> <<>>, outcome |-> ""]

Answered(parse_ok, reply, outcome) ==
  [raised |-> FALSE, parse_ok |-> parse_ok, reply |-> reply, outcome |-> outcome]

\* graph.invoke(initial_state) updates the state dict of its own call.
StoreState_shared(rs, r, new) == [q \in DOMAIN rs |-> new]

StoreState(rs, r, new) == [rs EXCEPT ![r] = new]

\* The steps of get_table_mapping_service() are positions inside the
\* table_mapping node.
GraphNode(position) ==
  IF position \in {"new_create", "new_return", "init", "load", "validate_and_replace"}
    THEN "table_mapping"
    ELSE position

ConcurrentInit ==
  /\ runs \in [RunIds ->
       { [node |-> "validate_hive",
          request |-> [hive_sql |-> sql, max_retries |-> ceiling],
          state |-> initial_state(sql, ceiling),
          service |-> 0,
          row |-> 0,
          seen |-> None,
          answers |-> <<>>] :
         sql \in ConcurrentRequests, ceiling \in 0..ConcurrentRetriesBound }]
  /\ cls_instance = 0
  /\ cls_mappings = <<>>
  /\ cls_loaded = FALSE
  /\ instances_created = 0
  /\ load_calls = 0
  /\ pc = "end"
  /\ request_sql = <<>>
  /\ hive_validation_mode = "disabled"
  /\ bq_validation_mode = "dry_run"
  /\ chunking_mode = "auto"
  /\ sql_chunker = <<>>
  /\ hive_sql = <<>>
  /\ hive_valid = FALSE
  /\ hive_error = None
  /\ mapping_error = None
  /\ bigquery_sql = None
  /\ validation_success = FALSE
  /\ validation_error = None
  /\ validation_mode = None
  /\ retry_count = 0
  /\ max_retries = 0
  /\ conversion_history = <<>>
  /\ chunks = <<>>
  /\ chunk_pos = 0
  /\ converted_parts = <<>>
  /\ trace = <<>>
  /\ hive_validator_calls = <<>>
  /\ translator_calls = <<>>
  /\ validator_calls = <<>>
  /\ repair_calls = <<>>
  /\ NoLogStream

single == <<pc, config, state, conversion, trace, calls, log_stream>>
service_class == <<cls_instance, cls_mappings, cls_loaded, instances_created, load_calls>>

\* Run r runs the node it is at and gets answer.
Advance(r, answer) ==
  LET run == runs[r]
      node == GraphNode(run.node)
      res == node_result(cls_mappings, run.state, node, answer)
  IN  runs' = StoreState(runs, r,
                [run EXCEPT !.node = res.node,
                            !.state = res.state,
                            !.answers = Append(@, [node |-> node, answer |-> answer])])

run_validate_hive(r) ==
  /\ runs[r].node = "validate_hive"
  /\ Advance(r, Answered(FALSE, <<>>, ""))
  /\ UNCHANGED <<single, service_class>>

\* TableMappingService.__new__: if cls._instance is None
service_new_check(r) ==
  /\ runs[r].node = "table_mapping"
  /\ runs' = [runs EXCEPT ![r].node =
                IF cls_instance = 0 THEN "new_create" ELSE "new_return"]
  /\ UNCHANGED <<single, service_class>>

\* cls._instance = super().__new__(cls)
service_new_create(r) ==
  /\ runs[r].node = "new_create"
  /\ instances_created' = instances_created + 1
  /\ cls_instance' = instances_created + 1
  /\ runs' = [runs EXCEPT ![r].node = "new_return"]
  /\ UNCHANGED <<single, cls_mappings, cls_loaded, load_calls>>

\* return cls._instance
service_new_return(r) ==
  /\ runs[r].node = "new_return"
  /\ runs' = [runs EXCEPT ![r].service = cls_instance, ![r].node = "init"]
  /\ UNCHANGED <<single, service_class>>

\* __init__: if not self._loaded: self.load_mappings()
service_init(r) ==
  /\ runs[r].node = "init"
  /\ IF ~cls_loaded
       THEN /\ load_calls' = load_calls + 1
            /\ runs' = [runs EXCEPT ![r].node = "load", ![r].row = 1]
       ELSE /\ runs' = [runs EXCEPT ![r].node = "validate_and_replace"]
            /\ UNCHANGED load_calls
  /\ UNCHANGED <<single, cls_instance, cls_mappings, cls_loaded, instances_created>>

\* load_mappings: one iteration of the loop over the CSV rows.
service_load_row(r) ==
  /\ runs[r].node = "load"
  /\ runs[r].row \in 1..Len(CsvRows)
  /\ LET row == CsvRows[runs[r].row]
     IN  cls_mappings' =
           IF row.hive_table # "" /\ row.bigquery_table # ""
             THEN [t \in DOMAIN cls_mappings \cup {row.hive_table} |->
                     IF t = row.hive_table THEN row.bigquery_table ELSE cls_mappings[t]]
             ELSE cls_mappings
  /\ runs' = [runs EXCEPT ![r].row = @ + 1]
  /\ UNCHANGED <<single, cls_instance, cls_loaded, instances_created, load_calls>>

\* load_mappings: the loop is over, TableMappingService._loaded = True.
service_load_done(r) ==
  /\ runs[r].node = "load"
  /\ runs[r].row \notin 1..Len(CsvRows)
  /\ cls_loaded' = TRUE
  /\ runs' = [runs EXCEPT ![r].node = "validate_and_replace"]
  /\ UNCHANGED <<single, cls_instance, cls_mappings, instances_created, load_calls>>

\* table_mapping_node after get_table_mapping_service() returned.
run_table_mapping(r) ==
  /\ runs[r].node = "validate_and_replace"
  /\ \E parse_ok \in BOOLEAN :
       LET run == runs[r]
           answer == Answered(parse_ok, <<>>, "")
           res == node_result(cls_mappings, run.state, "table_mapping", answer)
       IN  runs' = StoreState(runs, r,
                     [run EXCEPT !.node = res.node,
                                 !.state = res.state,
                                 !.seen = Some(cls_mappings),
                                 !.answers = Append(@, [node |-> "table_mapping",
                                                        answer |-> answer])])
  /\ UNCHANGED <<single, service_class>>

run_convert(r) ==
  /\ runs[r].node = "convert"
  /\ \E reply \in ConcurrentReplies : Advance(r, Answered(FALSE, reply, ""))
  /\ UNCHANGED <<single, service_class>>

run_validate(r) ==
  /\ runs[r].node = "validate"
  /\ \E outcome \in ConcurrentOutcomes : Advance(r, Answered(FALSE, <<>>, outcome))
  /\ UNCHANGED <<single, service_class>>

\* fix_node; its get_table_mapping_service() call finds the instance and
\* _loaded set, since the run went through table_mapping_node before.
\* sqlglot parses each of the replies.
run_fix(r) ==
  /\ runs[r].node = "fix"
  /\ \E reply \in ConcurrentReplies : Advance(r, Answered(TRUE, reply, ""))
  /\ UNCHANGED <<single, service_class>>

\* The translator, BigQueryService() or the repair call raises.
run_raises(r) ==
  /\ runs[r].node \in {"convert", "validate", "fix"}
  /\ Advance(r, Raised)
  /\ UNCHANGED <<single, service_class>>

ConcurrentNext ==
  \/ \E r \in RunIds : run_validate_hive(r)
  \/ \E r \in RunIds : service_new_check(r)
  \/ \E r \in RunIds : service_new_create(r)
  \/ \E r \in RunIds : service_new_return(r)
  \/ \E r \in RunIds : service_init(r)
  \/ \E r \in RunIds : service_load_row(r)
  \/ \E r \in RunIds : service_load_done(r)
  \/ \E r \in RunIds : run_table_mapping(r)
  \/ \E r \in RunIds : run_convert(r)
  \/ \E r \in RunIds : run_validate(r)
  \/ \E r \in RunIds : run_fix(r)
  \/ \E r \in RunIds : run_raises(r)

ConcurrentSpec == ConcurrentInit /\ [][ConcurrentNext]_vars

\* ------------------------------------------------------------------ C17
\* The state run_conversion reaches when it runs alone and its collaborators
\* give the answers in the log: every node sees the fully loaded mapping.
RECURSIVE Replay(_, _)
Replay(current, answers) ==
  IF answers = <<>> THEN current
  ELSE Replay(node_result(_mappings, current.state, Head(answers).node,
                          Head(answers).answer),
              Tail(answers))

Alone(run) ==
  Replay([node |-> "validate_hive",
          state |-> initial_state(run.request.hive_sql, run.request.max_retries)],
         run.answers)

\* C17: in every interleaving of two runs, a step changes the state of one
\* run at most (retry_count, candidate SQL, validity flags, history and all
\* other fields), and at every point, the end included, each run's state is
\* the state it reaches running alone with the same answers of the
\* collaborators.
C17_RunsIsolated ==
  /\ [][\E r \in RunIds : \A q \in RunIds \ {r} : runs'[q] = runs[q]]_vars
  /\ [](\A r \in RunIds :
          [node |-> GraphNode(runs[r].node), state |-> runs[r].state] = Alone(runs[r]))

\* Both runs loaded the mapping table at the same time, and both went on
\* through a rejected candidate and a repair to different final states.
C17_Witness ==
  /\ load_calls = 2
  /\ \A r \in RunIds :
       /\ runs[r].node = "end"
       /\ runs[r].state.retry_count = 1
       /\ Len(runs[r].state.conversion_history) = 2
  /\ runs[1].state # runs[2].state

\* ------------------------------------------------------------------ C18
\* C18: whatever the interleaving of the first get_table_mapping_service()
\* calls, one TableMappingService instance is created, load_mappings runs
\* once, and no caller reads a mapping table that is not fully loaded.
C18_SingleInitialization ==
  /\ instances_created <= 1
  /\ load_calls <= 1
  /\ \A r \in DOMAIN runs : runs[r].seen \in {None, Some(_mappings)}

\* The third part alone: a caller reads the mapping table fully loaded.
C18_NoPartialRead ==
  \A r \in DOMAIN runs : runs[r].seen \in {None, Some(_mappings)}

\* ------------------------------------------------ decomposition in general
\* chunk_and_convert with an identity converter_func, applied to texts of
\* every category analyze_and_chunk tells apart.

\* CTE definitions whose opening parenthesis is never closed.
UnclosedDefinitions ==
  { <<"(", "SELECT", "1">>,
    <<"(", "SELECT", "FROM", "(", "SELECT", "1", ")">> }

ClosedDefinitions ==
  { <<"(", "SELECT", "1", ")">>,
    <<"(", "SELECT", "FROM", "(", "SELECT", "1", ")", ")">> }

\* WITH n1 AS (d1), ..., nk AS (dk) <main> where the definition at position
\* broken is unclosed and the others are closed.
MalformedCtes ==
  UNION { [definitions : { d \in [1..k -> ClosedDefinitions \cup UnclosedDefinitions] :
                             \E j \in 1..k :
                               /\ d[j] \in UnclosedDefinitions
                               /\ \A i \in (1..k) \ {j} : d[i] \in ClosedDefinitions },
           main_query : CteMainQueries] : k \in 1..MaxCtes }

MalformedCteQueries == {CteQueryText(q) : q \in MalformedCtes}

\* UNION queries: branches joined by UNION or UNION ALL.  A branch is a plain
\* select, a select from a parenthesised UNION, a select of a literal
\* holding the word UNION, or a select of a column named union_id.
MaxUnions == 2

UnionBranches ==
  { <<"SELECT", "1">>,
    <<"SELECT", "FROM", "(", "SELECT", "1", "UNION", "SELECT", "2", ")">>,
    <<"SELECT", "'", "UNION", "'">>,
    <<"SELECT", "UNION_ID">> }

UnionSeparators == { <<"UNION">>, <<"UNION", "ALL">> }

\* A query as its k + 1 branches and its k separators.
UnionShapes ==
  UNION { [branches : [1..(k + 1) -> UnionBranches],
           separators : [1..k -> UnionSeparators]] : k \in 1..MaxUnions }

RECURSIVE UnionTail(_, _)
UnionTail(q, i) ==
  IF i > Len(q.separators) THEN <<>>
  ELSE q.separators[i] \o q.branches[i + 1] \o UnionTail(q, i + 1)

UnionQueryText(q) == q.branches[1] \o UnionTail(q, 1)

UnionQueries == {UnionQueryText(q) : q \in UnionShapes}

\* Batches: statements separated by semicolons.  A statement is a USE, a
\* select, a select of a literal holding a semicolon, an INSERT ... SELECT, a
\* CTE query, an ALTER VIEW, a CREATE or a DROP, or a select of a literal
\* holding an escaped quote and a semicolon.
MaxStatements == 2

BatchStatements ==
  { <<"USE", "db">>,
    <<"SELECT", "1">>,
    <<"SELECT", "'", ";", "'">>,
    <<"INSERT", "INTO", "TABLE", "h1", "SELECT", "2">>,
    <<"WITH", "c1", "AS", "(", "SELECT", "1", ")", "SELECT", "FROM", "c1">>,
    <<"ALTER", "VIEW", "v1", "AS", "SELECT", "1">>,
    <<"CREATE", "TABLE", "t2">>,
    <<"DROP", "TABLE", "t2">>,
    <<"SELECT", "'", "\\'", ";", "'">> }

BatchShapes == UNION { [1..k -> BatchStatements] : k \in 2..MaxStatements }

BatchText(q) == Join(q, <<";">>)

Batches == {BatchText(q) : q \in BatchShapes}

\* INSERT [OVERWRITE] [INTO] TABLE <target> followed by a body: a select, a
\* UNION of selects, a CTE query, or a CTE query whose main query is a UNION.
InsertHeaders ==
  { <<"INSERT", "OVERWRITE", "TABLE", "h1">>,
    <<"INSERT", "INTO", "TABLE", "h1">>,
    <<"INSERT", "TABLE", "h1">> }

InsertBodies ==
  { <<"SELECT", "1">>,
    <<"SELECT", "1", "UNION", "ALL", "SELECT", "2">>,
    <<"SELECT", "1", "UNION", "SELECT", "2", "UNION", "SELECT", "3">>,
    <<"WITH", "c1", "AS", "(", "SELECT", "1", ")", "SELECT", "FROM", "c1">>,
    <<"WITH", "c1", "AS", "(", "SELECT", "1", ")", ",", "c2", "AS", "(", "SELECT", "2", ")",
      "SELECT", "FROM", "c1", "UNION", "SELECT", "FROM", "c2">> }

InsertShapes == [header : InsertHeaders, body : InsertBodies]

InsertText(q) == q.header \o q.body

InsertSelects == {InsertText(q) : q \in InsertShapes}

\* Single statements of the other categories: an INSERT the header pattern
\* does not match, ALTER VIEW with a select and with a CTE query, and texts
\* without any structure.
OtherStatements ==
  { <<"INSERT", "INTO", "h1", "SELECT", "1">>,
    <<"ALTER", "VIEW", "v1", "AS", "SELECT", "1">>,
    <<"ALTER", "VIEW", "v1", "AS", "WITH", "c1", "AS", "(", "SELECT", "1", ")",
      "SELECT", "FROM", "c1">>,
    <<"SELECT", "1">>,
    <<"CREATE", "TABLE", "t2">> }

ChunkerInputs ==
  MalformedCteQueries \cup {CteQueryText(q) : q \in CteQueries} \cup UnionQueries
    \cup Batches \cup InsertSelects \cup OtherStatements

DecomposeInit == ChunkerInit(ChunkerInputs)

\* The orders a list of n parts can be supplied in.
ListOrders(n) == {f \in [1..n -> 1..n] : \A i, j \in 1..n : f[i] = f[j] => i = j}

\* Longest list of parts that is supplied again in every order.
MaxReorderedParts == 3

\* _merge_parts on the same parts supplied in another list order.
ApplyMergePartsReordered ==
  /\ pc = "merged"
  /\ Len(chunks) > 1
  /\ Len(converted_parts) <= MaxReorderedParts
  /\ \E order \in ListOrders(Len(converted_parts)) :
       /\ converted_parts' = [i \in 1..Len(converted_parts) |-> converted_parts[order[i]]]
       /\ bigquery_sql' = Some(_merge_parts(converted_parts'))
  /\ pc' = "merged_reordered"
  /\ UNCHANGED <<outside, config, hive_sql, hive_valid, hive_error, mapping_error,
                 validation_success, validation_error, validation_mode,
                 retry_count, max_retries, conversion_history, chunks, chunk_pos,
                 trace, calls>>

DecomposeNext ==
  \/ ApplyAnalyzeAndChunk
  \/ ApplyIdentityTranslator
  \/ ApplyWholeTranslator
  \/ ApplyMergeParts
  \/ ApplyMergePartsReordered

DecomposeSpec == DecomposeInit /\ [][DecomposeNext]_vars

DecompositionDone == pc # "analyze_and_chunk"

\* ------------------------------------------------------------------ C21
\* C21: when a CTE definition of a unit starting with WITH has no matching
\* closing parenthesis, the decomposition is exactly one main chunk whose
\* content is the whole unit: no cte chunk, and the WITH keyword, the names
\* and the commas are all there.
C21_MalformedCteAbandoned ==
  (hive_sql \in MalformedCteQueries /\ DecompositionDone) =>
     chunks = << SQLChunk("main", strip(hive_sql), None, 0) >>

\* ------------------------------------------------------------------ C22
\* The chunks are the k + 1 branches in source order, the first typed
\* union_first and the others union_part.
IsUnionDecomposition(chunk_list, q) ==
  /\ Len(chunk_list) = Len(q.separators) + 1
  /\ \A i \in 1..Len(chunk_list) :
       /\ chunk_list[i].chunk_type = IF i = 1 THEN "union_first" ELSE "union_part"
       /\ chunk_list[i].content = q.branches[i]

\* C22: a query with k top-level UNION / UNION ALL separators decomposes
\* into k + 1 chunks in source order, the first typed union_first and the
\* others union_part, and the merge after an identity translation joins
\* every consecutive pair with UNION ALL whatever the separator was.
C22_UnionRoundTrip ==
  \A q \in UnionShapes :
    hive_sql = UnionQueryText(q) =>
      /\ DecompositionDone => IsUnionDecomposition(chunks, q)
      /\ pc = "merged" =>
           bigquery_sql = Some(Join(q.branches, <<"NL", "UNION", "ALL", "NL">>))

\* The same for the queries that select no column whose name begins with
\* the letters UNION: it holds.
C22_WithoutUnionPrefixedNames ==
  \A q \in UnionShapes :
    (hive_sql = UnionQueryText(q)
       /\ \A i \in 1..Len(q.branches) : q.branches[i] # <<"SELECT", "UNION_ID">>) =>
      /\ DecompositionDone => IsUnionDecomposition(chunks, q)
      /\ pc = "merged" =>
           bigquery_sql = Some(Join(q.branches, <<"NL", "UNION", "ALL", "NL">>))

\* ------------------------------------------------------------------ C23
IsNotUse(statement) == ~StartsWith(statement, <<"USE">>)

\* C23: the merge of the chunks of a batch has no use chunk in it (no part
\* is made for one) and is the other statements, in batch order, with a
\* semicolon between consecutive statements.
C23_BatchReassembly ==
  \A q \in BatchShapes :
    (hive_sql = BatchText(q) /\ pc = "merged") =>
      /\ \A k \in 1..Len(converted_parts) : converted_parts[k].type # "use"
      /\ WithoutLayout(bigquery_sql[1]) = Join(SelectSeq(q, IsNotUse), <<";">>)

\* ------------------------------------------------------------------ C24
\* The structural separators: the WITH keyword, <name> AS, the comma between
\* CTEs, UNION [ALL], the semicolon, and white space.
StructuralSeparators ==
  {"WITH", "AS", ",", "UNION", "ALL", ";", "NL"} \cup {CteNames[i] : i \in DOMAIN CteNames}

\* The contents of the chunks, one after the other in list order.
RECURSIVE ChunkContents(_)
ChunkContents(chunk_list) ==
  IF chunk_list = <<>> THEN <<>>
  ELSE Head(chunk_list).content \o ChunkContents(Tail(chunk_list))

\* contents is what is left of input when structural separators, and
\* nothing else, are taken out of it: nothing lost, duplicated or moved.
RECURSIVE IsPartitionOf(_, _)
IsPartitionOf(input, contents) ==
  IF input = <<>> THEN contents = <<>>
  ELSE \/ /\ contents # <<>>
          /\ Head(input) = Head(contents)
          /\ IsPartitionOf(Tail(input), Tail(contents))
       \/ /\ Head(input) \in StructuralSeparators
          /\ IsPartitionOf(Tail(input), contents)

\* C24: the chunks of one decomposition partition the input in order: all of
\* the input but structural separators and surrounding white space is in
\* exactly one chunk's content, in source order.
C24_ChunksPartitionInput ==
  DecompositionDone => IsPartitionOf(hive_sql, ChunkContents(chunks))

\* ------------------------------------------------------------------ C25
\* C25 as stated: every chunk has a category in {cte, main, union_first,
\* union_part, insert_header, alter_view_header, select, cte_query, create,
\* use, other}.
C25_Original ==
  \A i \in 1..Len(chunks) :
    chunks[i].chunk_type \in
      {"cte", "main", "union_first", "union_part", "insert_header", "alter_view_header",
       "select", "cte_query", "create", "use", "other"}

\* C25 amended: every chunk returned by analyze_and_chunk has a category in
\* the set above extended with insert and alter_view.
C25_ClosedCategories ==
  \A i \in 1..Len(chunks) :
    chunks[i].chunk_type \in
      {"cte", "main", "union_first", "union_part", "insert_header", "alter_view_header",
       "select", "cte_query", "create", "use", "other", "insert", "alter_view"}

\* A batch was decomposed into an insert and an alter_view chunk.
C25_Witness ==
  /\ DecompositionDone
  /\ Len(chunks) = 2
  /\ chunks[1].chunk_type = "insert"
  /\ chunks[2].chunk_type = "alter_view"

\* ------------------------------------------------------------------ C26
\* C26: the chunks of one decomposition carry the indices 0, 1, ..., n-1 in
\* list (source) order, re-indexed body chunks behind a header included,
\* and the merge of the same parts supplied in any other list order is the
\* same text as the merge of the parts in their original order.
C26_IndexOrderedReassembly ==
  /\ [](\A i \in 1..Len(chunks) : chunks[i].index = i - 1)
  /\ [][pc' = "merged_reordered" => bigquery_sql' = bigquery_sql]_vars

\* The parts of an INSERT with a header and two further chunks were merged
\* again with the header supplied last.
C26_Witness ==
  /\ pc = "merged_reordered"
  /\ Len(converted_parts) = 3
  /\ converted_parts[3].type = "insert_header"
  /\ converted_parts[1].index > converted_parts[2].index

\* ------------------------------------------------------------------ C27
\* One unit of the form INSERT [OVERWRITE] [INTO] TABLE <target> SELECT|WITH ...
IsInsertSelectUnit(sql) ==
  /\ ~_has_multiple_statements(sql)
  /\ InsertHeaderEnd(sql) # 0
  /\ SkipSpace(sql, InsertHeaderEnd(sql)) <= Len(sql)
  /\ sql[SkipSpace(sql, InsertHeaderEnd(sql))] \in {"WITH", "SELECT"}

HeaderChunks(chunk_list) ==
  {i \in 1..Len(chunk_list) : IsHeaderType(chunk_list[i].chunk_type)}

\* The chunks after the header are a CTE split, a UNION split or one select.
IsBodySplit(body) ==
  \/ \A i \in 1..Len(body) : body[i].chunk_type \in {"cte", "main"}
  \/ /\ body[1].chunk_type = "union_first"
     /\ \A i \in 2..Len(body) : body[i].chunk_type = "union_part"
  \/ Len(body) = 1 /\ body[1].chunk_type = "select"

\* C27: an INSERT ... TABLE <target> SELECT|WITH unit decomposes into one
\* insert_header chunk at index 0, holding the text up to the target, and
\* the body's chunks at indices 1..n; no decomposition has more than one
\* header chunk; and a reassembled text with a header part starts with that
\* part's content, before the CTE block and every body part.
C27_InsertHeaderFirst ==
  /\ DecompositionDone => Cardinality(HeaderChunks(chunks)) <= 1
  /\ (DecompositionDone /\ IsInsertSelectUnit(strip(hive_sql))) =>
       /\ Len(chunks) >= 2
       /\ chunks[1].chunk_type = "insert_header"
       /\ chunks[1].index = 0
       /\ chunks[1].content =
            SubSeq(strip(hive_sql), 1, InsertHeaderEnd(strip(hive_sql)) - 1)
       /\ \A i \in 2..Len(chunks) : chunks[i].index = i - 1
       /\ IsBodySplit(Tail(chunks))
  /\ \A i \in 1..Len(converted_parts) :
       (pc \in {"merged", "merged_reordered"} /\ IsHeaderType(converted_parts[i].type)) =>
          /\ bigquery_sql # None
          /\ IsPrefix(strip(converted_parts[i].content), bigquery_sql[1])

\* An INSERT whose body is a CTE query was reassembled: header, CTE block,
\* main query.
C27_Witness ==
  /\ pc = "merged"
  /\ IsInsertSelectUnit(strip(hive_sql))
  /\ Len(chunks) >= 3
  /\ chunks[2].chunk_type = "cte"
  /\ bigquery_sql # None
  /\ IsPrefix(<<"CREATE", "OR", "REPLACE", "TABLE">>, bigquery_sql[1])

\* ------------------------------------------------- table-name normalization
\* Texts handed to validate_and_replace.
NormalizeInputs == RequestSqls \cup ChunkerInputs

NormalizeInit == FunctionInit("validate_and_replace", NormalizeInputs)

\* One validate_and_replace call on the text held in hive_sql; the text it
\* returns replaces hive_sql and the unmapped list is kept in mapping_error,
\* as table_mapping_node keeps them.  trace records whether sqlglot parsed
\* the text.
ApplyValidateAndReplace ==
  /\ pc = "validate_and_replace"
  /\ \E parse_ok \in BOOLEAN :
       LET r == validate_and_replace(hive_sql, parse_ok)
       IN  /\ hive_sql' = r.sql
           /\ mapping_error' = IF r.unmapped # {} THEN Some(r.unmapped) ELSE None
           /\ trace' = Append(trace, IF parse_ok THEN "parsed" ELSE "regex_fallback")
  /\ pc' = "validate_and_replace_again"
  /\ UNCHANGED <<outside, config, conversion, hive_valid, hive_error, bigquery_sql,
                 validation_success, validation_error, validation_mode, retry_count,
                 max_retries, conversion_history, calls>>

\* validate_and_replace on the text the first call returned.
ApplyValidateAndReplaceAgain ==
  /\ pc = "validate_and_replace_again"
  /\ \E parse_ok \in BOOLEAN :
       LET r == validate_and_replace(hive_sql, parse_ok)
       IN  /\ hive_sql' = r.sql
           /\ mapping_error' = IF r.unmapped # {} THEN Some(r.unmapped) ELSE None
           /\ trace' = Append(trace, IF parse_ok THEN "parsed" ELSE "regex_fallback")
  /\ pc' = "normalized"
  /\ UNCHANGED <<outside, config, conversion, hive_valid, hive_error, bigquery_sql,
                 validation_success, validation_error, validation_mode, retry_count,
                 max_retries, conversion_history, calls>>

NormalizeNext == ApplyValidateAndReplace \/ ApplyValidateAndReplaceAgain

NormalizeSpec == NormalizeInit /\ [][NormalizeNext]_vars

\* ------------------------------------------------------------------ C28
\* C28: when validate_and_replace parsed a text and reported no unmapped
\* table, a second call on the text it returned, parsed again, returns that
\* text unchanged and reports no unmapped table.
C28_NormalizationIdempotent ==
  [][(/\ pc = "validate_and_replace_again"
      /\ mapping_error = None
      /\ trace' = <<"parsed", "parsed">>)
       => (hive_sql' = hive_sql /\ mapping_error' = None)]_vars

\* ------------------------------------------------------------------ C29
\* The structural categories in the order they are tested.
Categories ==
  <<"multi_statement", "insert_select", "alter_view", "cte", "union", "fallback">>

CategoryMatches(sql, category) ==
  CASE category = "multi_statement" -> _has_multiple_statements(sql)
    [] category = "insert_select" -> _is_insert_select(sql)
    [] category = "alter_view" -> _is_alter_view(sql)
    [] category = "cte" -> _has_cte(sql)
    [] category = "union" -> _has_union(sql)
    [] category = "fallback" -> TRUE

CategoryChunks(sql, category) ==
  CASE category = "multi_statement" -> _chunk_by_statements(sql)
    [] category = "insert_select" -> _chunk_insert_select(sql)
    [] category = "alter_view" -> _chunk_alter_view(sql)
    [] category = "cte" -> _chunk_by_cte(sql)
    [] category = "union" -> _chunk_by_union(sql)
    [] category = "fallback" -> << SQLChunk("main", sql, None, 0) >>

EarliestCategory(sql) ==
  Categories[CHOOSE k \in 1..Len(Categories) :
               /\ CategoryMatches(sql, Categories[k])
               /\ \A j \in 1..(k - 1) : ~CategoryMatches(sql, Categories[j])]

\* C29: the decomposition of a text is the one of the earliest category, in
\* the order multi-statement, INSERT...SELECT, ALTER VIEW, leading WITH,
\* top-level UNION, fallback, that the text matches, whatever later
\* categories it matches too.
C29_EarliestCategoryDecomposes ==
  DecompositionDone =>
     chunks = CategoryChunks(strip(hive_sql), EarliestCategory(strip(hive_sql)))

\* A batch whose first statement starts with WITH was decomposed, and by
\* statements: the CTE decomposition of the same text is another one.
C29_Witness ==
  /\ DecompositionDone
  /\ CategoryMatches(strip(hive_sql), "multi_statement")
  /\ CategoryMatches(strip(hive_sql), "cte")
  /\ chunks # CategoryChunks(strip(hive_sql), "cte")
  /\ Len(chunks) > 1

\* ------------------------------------------------- literals and categories
\* Texts with one single-quoted literal: what stands before its content and
\* what stands after it.
LiteralTemplates ==
  { [before |-> <<"SELECT", "'">>, after |-> <<"'", "FROM", "t1">>],
    [before |-> <<"INSERT", "INTO", "TABLE", "h1", "VALUES", "(", "'">>,
     after |-> <<"'", ")">>],
    [before |-> <<"ALTER", "VIEW", "v1", "AS", "SELECT", "'">>, after |-> <<"'">>],
    [before |-> <<"WITH", "c1", "AS", "(", "SELECT", "'">>,
     after |-> <<"'", ")", "SELECT", "FROM", "c1">>],
    [before |-> <<"SELECT", "'">>, after |-> <<"'", "UNION", "ALL", "SELECT", "2">>],
    [before |-> <<"SELECT", "1", ";", "SELECT", "'">>, after |-> <<"'">>] }

\* Contents of the literal: plain text, a separator or a keyword, and text
\* with a backslash-escaped quote in it.
LiteralContents ==
  { <<"x">>, <<";">>, <<"SELECT">>, <<"WITH">>, <<"UNION", "ALL">>,
    <<"it", "\\'", "s", ";", "x">>, <<"it", "\\'", "s", "UNION", "ALL", "x">> }

LiteralText(template, content) == template.before \o content \o template.after

\* The predicates analyze_and_chunk classifies a text with.
Predicates ==
  {"_has_multiple_statements", "_is_insert_select", "_is_alter_view", "_has_cte",
   "_has_union"}

PredicateHolds(sql, predicate) ==
  CASE predicate = "_has_multiple_statements" -> _has_multiple_statements(sql)
    [] predicate = "_is_insert_select" -> _is_insert_select(sql)
    [] predicate = "_is_alter_view" -> _is_alter_view(sql)
    [] predicate = "_has_cte" -> _has_cte(sql)
    [] predicate = "_has_union" -> _has_union(sql)

HoldingPredicates(sql) == {predicate \in Predicates : PredicateHolds(sql, predicate)}

LiteralTexts ==
  {LiteralText(template, content) :
     template \in LiteralTemplates, content \in LiteralContents}

ClassifyInit == FunctionInit("classify", LiteralTexts)

\* The five predicates on the text; trace keeps the set of those that hold.
ApplyClassifier ==
  /\ pc = "classify"
  /\ trace' = Append(trace, HoldingPredicates(strip(hive_sql)))
  /\ pc' = "classify_variant"
  /\ UNCHANGED <<outside, config, state, conversion, calls>>

\* The five predicates on a text that differs from the first in the content
\* of the literal only.
ApplyClassifierToVariant ==
  /\ pc = "classify_variant"
  /\ \E template \in LiteralTemplates :
       \E content, other \in LiteralContents :
          /\ request_sql = LiteralText(template, content)
          /\ hive_sql' = LiteralText(template, other)
  /\ trace' = Append(trace, HoldingPredicates(strip(hive_sql')))
  /\ pc' = "classified"
  /\ UNCHANGED <<outside, config, conversion, hive_valid, hive_error, mapping_error,
                 bigquery_sql, validation_success, validation_error, validation_mode,
                 retry_count, max_retries, conversion_history, calls>>

ClassifyNext == ApplyClassifier \/ ApplyClassifierToVariant

ClassifySpec == ClassifyInit /\ [][ClassifyNext]_vars

\* ------------------------------------------------------------------ C30
\* C30: two texts that differ only in the content of a quoted literal make
\* the same predicates of the classifier hold (_has_multiple_statements,
\* _is_insert_select, _is_alter_view, _has_cte, _has_union).
C30_LiteralsDoNotClassify ==
  pc = "classified" => trace[1] = trace[2]

\* ------------------------------------------------------ matching parenthesis
\* Texts handed to _find_matching_paren: parentheses, the two quote
\* characters and a backslash-escaped quote, in every arrangement that has
\* an opening parenthesis.
MaxParenLen == 5

ParenLexemes == {"(", ")", "'", "\"", "\\'"}

ParenTexts ==
  UNION { {t \in [1..n -> ParenLexemes] : \E i \in 1..n : t[i] = "("} :
            n \in 1..MaxParenLen }

ParenInit == FunctionInit("find_matching_paren", ParenTexts)

\* _find_matching_paren(sql, start) for a position of an opening
\* parenthesis; trace keeps the position and the result.
ApplyFindMatchingParen ==
  /\ pc = "find_matching_paren"
  /\ \E start \in {i \in 1..Len(hive_sql) : hive_sql[i] = "("} :
       trace' = << [start |-> start, result |-> _find_matching_paren(hive_sql, start)] >>
  /\ pc' = "paren_found"
  /\ UNCHANGED <<outside, config, state, conversion, calls>>

ParenSpec == ParenInit /\ [][ApplyFindMatchingParen]_vars

\* ------------------------------------------------------------------ C31
\* The quote character of the literal that is open just before position i,
\* for a reader that starts at start; "" when none is open.  A quote after a
\* backslash is not a quote.
RECURSIVE OpenLiteral(_, _, _)
OpenLiteral(sql, start, i) ==
  IF i <= start THEN ""
  ELSE LET open == OpenLiteral(sql, start, i - 1)
           tok == sql[i - 1]
       IN  IF tok \notin {"'", "\""} THEN open
           ELSE IF open = "" THEN tok
           ELSE IF open = tok THEN ""
           ELSE open

ParensOutsideLiterals(sql, start, upto, paren) ==
  {i \in start..upto : sql[i] = paren /\ OpenLiteral(sql, start, i) = ""}

NestingDepth(sql, start, upto) ==
  Cardinality(ParensOutsideLiterals(sql, start, upto, "("))
    - Cardinality(ParensOutsideLiterals(sql, start, upto, ")"))

\* Closing parentheses outside literals at which the depth is back to zero.
MatchingCloses(sql, start) ==
  {p \in ParensOutsideLiterals(sql, start, Len(sql), ")") : NestingDepth(sql, start, p) = 0}

\* C31: for an opening parenthesis at start, _find_matching_paren returns the
\* first closing parenthesis outside quoted literals at which the nesting
\* depth, counted outside literals from start, is back to zero, a quote after
\* a backslash neither opening nor closing a literal; and not found (0 here,
\* -1 in the code) when there is no such parenthesis.
C31_MatchingParenOutsideLiterals ==
  pc = "paren_found" =>
     LET start == trace[1].start
         closes == MatchingCloses(hive_sql, start)
     IN  trace[1].result =
           IF closes = {} THEN 0
           ELSE CHOOSE p \in closes : \A q \in closes : p <= q

\* The parenthesis found lies behind a closing parenthesis that stands in a
\* literal.
C31_Witness ==
  /\ pc = "paren_found"
  /\ trace[1].result > 0
  /\ \E i \in (trace[1].start + 1)..(trace[1].result - 1) :
       hive_sql[i] = ")" /\ OpenLiteral(hive_sql, trace[1].start, i) # ""

\* ------------------------------------------------------------------ C32
\* C32: when a text is split by _chunk_by_union, every boundary is the
\* keyword UNION as a whole word, at parenthesis depth zero and outside
\* quoted literals.
C32_UnionBoundariesAreKeywords ==
  (DecompositionDone /\ EarliestCategory(strip(hive_sql)) = "union") =>
     \A i \in 1..Len(_find_top_level_unions(strip(hive_sql))) :
        LET boundary == _find_top_level_unions(strip(hive_sql))[i]
        IN  /\ strip(hive_sql)[boundary.start] = "UNION"
            /\ OpenLiteral(strip(hive_sql), 1, boundary.start) = ""
            /\ NestingDepth(strip(hive_sql), 1, boundary.start) = 0

\* The same without identifiers that begin with the letters UNION.
C32_WithoutUnionPrefixedNames ==
  (\A i \in 1..Len(hive_sql) : hive_sql[i] \notin UnionPrefixedWords) =>
     C32_UnionBoundariesAreKeywords

\* ------------------------------------------------------------------ C33
\* The chunk type of a statement, by its leading keyword.
LeadingKeywordType(statement) ==
  CASE Head(statement) = "USE" -> "use"
    [] Head(statement) = "INSERT" -> "insert"
    [] Head(statement) = "ALTER" -> "alter_view"
    [] Head(statement) = "CREATE" -> "create"
    [] Head(statement) = "SELECT" -> "select"
    [] Head(statement) = "WITH" -> "cte_query"
    [] OTHER -> "other"

\* C33: the decomposition of a batch is one chunk per statement, in batch
\* order, holding the whole statement, typed by its leading keyword and
\* indexed by its place; a semicolon inside a literal does not split and a
\* statement with a CTE or a UNION is one chunk.
C33_OneChunkPerStatement ==
  \A q \in BatchShapes :
    (hive_sql = BatchText(q) /\ DecompositionDone) =>
      /\ Len(chunks) = Len(q)
      /\ \A i \in 1..Len(chunks) :
           /\ chunks[i].content = q[i]
           /\ chunks[i].chunk_type = LeadingKeywordType(q[i])

\* The same for batches whose literals hold no escaped quote.
C33_WithoutEscapedQuotes ==
  (\A i \in 1..Len(hive_sql) : hive_sql[i] # "\\'") => C33_OneChunkPerStatement

\* ------------------------------------------------ source validation on/off
\* Runs under every value of HIVE_VALIDATION_MODE, with no retry or one.
HiveModeInit == InitWith(HiveValidationModes, 0..1)

HiveModeSpec == HiveModeInit /\ [][Next]_vars

\* ------------------------------------------------------------------ C34
DisablingModes == {"disabled", "skip", "off", "false", "0"}

\* C34: with HIVE_VALIDATION_MODE one of disabled, skip, off, false, 0 the
\* source validator is never called, and the validate_hive step sets
\* hive_valid to true, hive_error to none and hands over to table mapping.
C34_DisabledSourceValidation ==
  /\ [](hive_validation_mode \in DisablingModes => hive_validator_calls = <<>>)
  /\ [][(hive_validation_mode \in DisablingModes /\ pc = "validate_hive") =>
          (hive_valid' /\ hive_error' = None /\ pc' = "table_mapping")]_vars

\* A run under HIVE_VALIDATION_MODE=0 has gone through validate_hive and
\* stands at table mapping.
C34_Witness ==
  /\ hive_validation_mode = "0"
  /\ trace = <<"validate_hive">>
  /\ pc = "table_mapping"
  /\ hive_valid

\* ------------------------------------------------------------------ C35
\* The i-th step of a run.
StepAt(i) ==
  IF i = 1 THEN "validate_hive"
  ELSE IF i = 2 THEN "table_mapping"
  ELSE IF i = 3 THEN "convert"
  ELSE IF i % 2 = 0 THEN "validate"
  ELSE "fix"

StepsInOrder == \A i \in 1..Len(trace) : trace[i] = StepAt(i)

\* The steps so far end at source validation, at table mapping or with a
\* Validate.
EndsValidated == Len(trace) \in {1, 2} \/ (Len(trace) >= 4 /\ trace[Len(trace)] = "validate")

\* A Fix starts only from a Validate that rejected the candidate.
FixFollowsRejection ==
  [][pc' = "fix" => (pc = "validate" /\ ~validation_success')]_vars

\* What is returned was the subject of the last call of the validator.
ReturnedWasValidated ==
  (pc = "end" /\ bigquery_sql # None) =>
     /\ validator_calls # <<>>
     /\ validator_calls[Len(validator_calls)].sql = bigquery_sql[1]

\* C35 as stated: every run, however it ends, ends with a Validate (or at
\* source validation or table mapping), the steps being in order.
C35_Original ==
  /\ StepsInOrder
  /\ pc \in {"end", "raised"} => EndsValidated

\* C35: the steps of a run are ValidateSource, NormalizeNames, Convert, then
\* Validate and Fix in alternation; a Fix starts only after a Validate that
\* rejected the candidate and hands over to Validate; a run that ends
\* without an exception ends at source validation, at table mapping or with
\* a Validate, and the candidate it returns is the one validated last.
C35_StepOrder ==
  /\ [](StepsInOrder)
  /\ [](pc = "end" => EndsValidated)
  /\ FixFollowsRejection
  /\ [][pc = "fix" => pc' \in {"validate", "raised"}]_vars
  /\ [](ReturnedWasValidated)

\* A run ended after Convert, a rejected Validate, a Fix and a second
\* Validate.
C35_Witness ==
  /\ pc = "end"
  /\ trace = <<"validate_hive", "table_mapping", "convert", "validate", "fix", "validate">>
  /\ bigquery_sql # None

\* ------------------------------------------------------------------ C36
\* C36: when a run that reached Validate has ended, the bigquery_sql it
\* returns is the SQL of the last history entry and the SQL the validator
\* was last called with; validation_success is that call's verdict and
\* validation_error is the error of that entry, none when the verdict was an
\* acceptance; and 0 <= retry_count <= max_retries in every state.
C36_ResultDescribesLastAttempt ==
  /\ 0 <= retry_count /\ retry_count <= max_retries
  /\ (pc = "end" /\ conversion_history # <<>>) =>
       LET last_entry == conversion_history[Len(conversion_history)]
           last_call == validator_calls[Len(validator_calls)]
       IN  /\ bigquery_sql = Some(last_entry.bigquery_sql)
           /\ last_call.sql = last_entry.bigquery_sql
           /\ validation_success = last_call.result.success
           /\ validation_error = last_entry.error
           /\ validation_success => last_entry.error = None

\* A run ended on the acceptance of its second candidate.
C36_Witness ==
  /\ pc = "end"
  /\ Len(conversion_history) = 2
  /\ validation_success
  /\ retry_count = 1
  /\ conversion_history[1].bigquery_sql # conversion_history[2].bigquery_sql

\* ------------------------------------------------------------------ C37
\* C37: the response carries the retries-exhausted warning only when the
\* last step of the run was a Validate that rejected the candidate with
\* retry_count >= max_retries; a run that ended at source validation or at
\* table mapping carries none, whatever max_retries is.
C37_WarningOnlyAfterRejectedValidate ==
  (Responded /\ ConvertResponse.warning # None) =>
     /\ LastNode = "validate"
     /\ ~validation_success
     /\ retry_count >= max_retries

\* The same for runs with at least one retry allowed.
C37_WithRetriesAllowed ==
  max_retries >= 1 => C37_WarningOnlyAfterRejectedValidate

\* ------------------------------------------------------------------ C38
\* The chunked conversion (more than one chunk) has just returned its
\* candidate to convert_node, which hands it to Validate.
ChunkedCandidateReturned ==
  /\ pc = "validate"
  /\ ConvertReturned
  /\ conversion_history = <<>>
  /\ Len(chunks) > 1

\* The translator returned non-empty text for every chunk it was given.
TranslationsNonEmpty ==
  \A k \in 1..Len(translator_calls) : StripFence(translator_calls[k].reply) # <<>>

\* C38: whenever Convert takes the chunked path (more than one chunk) and the
\* translator returns non-empty text for every chunk it is given, the
\* candidate handed to Validate is non-empty and contains the translation of
\* at least one chunk, also for a batch in which use chunks are dropped.
C38_ChunkedCandidateNonEmpty ==
  (ChunkedCandidateReturned /\ TranslationsNonEmpty) =>
    /\ bigquery_sql[1] # <<>>
    /\ \E k \in 1..Len(translator_calls) :
         IsInfix(StripFence(translator_calls[k].reply), bigquery_sql[1])

\* The same statement for the chunked conversions in which some chunk is
\* not a use chunk: it holds there, so the divergence is confined to
\* batches of use statements only.
C38_WithATranslatedChunk ==
  (/\ ChunkedCandidateReturned
   /\ TranslationsNonEmpty
   /\ \E i \in 1..Len(chunks) : NeedsTranslator(chunks[i])) =>
    /\ bigquery_sql[1] # <<>>
    /\ \E k \in 1..Len(translator_calls) :
         IsInfix(StripFence(translator_calls[k].reply), bigquery_sql[1])

\* A batch of use statements only was converted chunk by chunk: no chunk
\* reached the translator and the candidate is the empty text.
C38_EmptyCandidate ==
  /\ ChunkedCandidateReturned
  /\ \A i \in 1..Len(chunks) : chunks[i].chunk_type = "use"
  /\ translator_calls = <<>>
  /\ bigquery_sql = Some(<<>>)

\* ------------------------------------------------------------ log stream
\* (src/services/log_stream.py)  A log entry is written as the number of
\* its emission: entry n is the n-th record that reached _log_buffer.
\* StreamingLogHandler.emit is a plain function without an await and
\* subscribe_logs is an async generator on the same event loop, so emit
\* runs between two suspensions of a generator, never in the middle of one
\* of its steps.

\* _log_buffer = deque(maxlen=100)
BufferMaxLen == 100

\* queue = asyncio.Queue(maxsize=50)
QueueMaxSize == 50

\* Number of emit calls a behaviour makes after the state it starts in.
MaxEmits == 2

\* deque.append(entry) on a deque with maxlen: a full deque discards its
\* oldest entry.
deque_append(buffer, entry) ==
  IF Len(buffer) >= BufferMaxLen
    THEN Tail(buffer) \o <<entry>>
    ELSE Append(buffer, entry)

\* asyncio.Queue.full()
full_early(q) == Len(q) >= QueueMaxSize - 1

full(q) == Len(q) >= QueueMaxSize

\* try: queue.put_nowait(log_entry)  except asyncio.QueueFull: pass
put_nowait(q, entry) == IF full(q) THEN q ELSE Append(q, entry)

\* queue in _subscribers
IsSubscriber(s) == \E i \in 1..Len(_subscribers) : _subscribers[i] = s

\* if queue in _subscribers: _subscribers.remove(queue)
remove(list, s) ==
  IF \E i \in 1..Len(list) : list[i] = s
    THEN LET first == CHOOSE i \in 1..Len(list) :
                        list[i] = s /\ \A j \in 1..(i - 1) : list[j] # s
         IN  SubSeq(list, 1, first - 1) \o SubSeq(list, first + 1, Len(list))
    ELSE list

\* The entry the next successful emit appends.
NextEntry ==
  IF _log_buffer = <<>> THEN 1 ELSE _log_buffer[Len(_log_buffer)] + 1

\* The entries emitted so far.
LastEntry == NextEntry - 1

\* _log_buffer after n entries were emitted.
BufferAfter(n) ==
  LET len == IF n < BufferMaxLen THEN n ELSE BufferMaxLen
  IN  [i \in 1..len |-> n - len + i]

\* The generator of stream s is in its while loop: at queue.get() or at one
\* of the two yields of the loop, or at the last yield of the replay.
AtQueue(s) ==
  \/ stream[s].at = "get"
  \/ stream[s].at = "replay" /\ stream[s].snapshot = <<>>

\* A stream whose generator has not run yet.
Created ==
  [at |-> "created", snapshot |-> <<>>, received |-> <<>>,
   subscribed_at |-> 0, skipped |-> {}, heartbeat |-> FALSE]

\* What the service did before a behaviour starts: it logged prior entries,
\* and stream1 was not opened, or it was opened when all but backlog of
\* them were logged and has yielded the whole replay and nothing since.
\* Nothing was logged; one entry short of a full queue was logged to a
\* stream opened first; one entry short of a full buffer was logged.
EarlierLogging ==
  { [prior |-> 0, opened |-> FALSE, backlog |-> 0],
    [prior |-> 0, opened |-> TRUE, backlog |-> 0],
    [prior |-> QueueMaxSize - 1, opened |-> TRUE, backlog |-> QueueMaxSize - 1],
    [prior |-> BufferMaxLen - 1, opened |-> TRUE, backlog |-> 0] }

\* The state of the log stream after earlier logging; stream2 is not open.
LogInit ==
  /\ FunctionState("log_stream", {<<>>})
  /\ emit_calls = 0
  /\ handle_error_calls = 0
  /\ \E earlier \in EarlierLogging :
       LET subscribed_at == earlier.prior - earlier.backlog
       IN  /\ _log_buffer = BufferAfter(earlier.prior)
           /\ _subscribers = IF earlier.opened THEN <<"stream1">> ELSE <<>>
           /\ queue = [s \in Streams |->
                IF s = "stream1"
                  THEN [i \in 1..earlier.backlog |-> subscribed_at + i]
                  ELSE <<>>]
           /\ stream = [s \in Streams |->
                IF s = "stream1" /\ earlier.opened
                  THEN [Created EXCEPT !.at = "get",
                                       !.received = BufferAfter(subscribed_at),
                                       !.subscribed_at = subscribed_at]
                  ELSE Created]

\* StreamingLogHandler.emit(record): the entry is appended to the buffer and
\* put on every subscriber's queue, a full queue being passed over; an
\* exception raised while the entry is built (self.format) is handed to
\* handleError.
emit ==
  /\ pc = "log_stream"
  /\ emit_calls < MaxEmits
  /\ emit_calls' = emit_calls + 1
  /\ \/ /\ _log_buffer' = deque_append(_log_buffer, NextEntry)
        /\ queue' = [s \in Streams |->
             IF IsSubscriber(s) THEN put_nowait(queue[s], NextEntry) ELSE queue[s]]
        /\ stream' = [s \in Streams |->
             IF IsSubscriber(s) /\ full(queue[s])
               THEN [stream[s] EXCEPT !.skipped = @ \cup {NextEntry}]
               ELSE stream[s]]
        /\ UNCHANGED handle_error_calls
     \/ /\ handle_error_calls' = handle_error_calls + 1
        /\ UNCHANGED <<_log_buffer, queue, stream>>
  /\ UNCHANGED <<pc, config, state, conversion, trace, calls, runs, service_class,
                 _subscribers>>

\* subscribe_logs(), first step of the generator: the queue is created and
\* appended to _subscribers, list(_log_buffer) is taken and its first entry
\* is yielded; with an empty buffer the generator goes on to queue.get().
subscribe_logs(s) ==
  /\ pc = "log_stream"
  /\ stream[s].at = "created"
  /\ queue' = [queue EXCEPT ![s] = <<>>]
  /\ _subscribers' = Append(_subscribers, s)
  /\ stream' = [stream EXCEPT ![s] =
       IF _log_buffer = <<>>
         THEN [@ EXCEPT !.at = "get", !.subscribed_at = LastEntry]
         ELSE [@ EXCEPT !.at = "replay",
                        !.snapshot = Tail(_log_buffer),
                        !.received = <<Head(_log_buffer)>>,
                        !.subscribed_at = LastEntry]]
  /\ UNCHANGED <<pc, config, state, conversion, trace, calls, runs, service_class,
                 _log_buffer, emit_calls, handle_error_calls>>

\* subscribe_logs(), the replay loop: the next entry of the copy is yielded.
subscribe_logs_replay(s) ==
  /\ pc = "log_stream"
  /\ stream[s].at = "replay"
  /\ stream[s].snapshot # <<>>
  /\ stream' = [stream EXCEPT ![s].snapshot = Tail(@),
                              ![s].received = Append(@, Head(stream[s].snapshot))]
  /\ UNCHANGED <<pc, config, state, conversion, trace, calls, runs, service_class,
                 _log_buffer, _subscribers, queue, emit_calls, handle_error_calls>>

\* subscribe_logs(), the while loop: queue.get() returns the oldest entry of
\* the queue and it is yielded.
subscribe_logs_get(s) ==
  /\ pc = "log_stream"
  /\ AtQueue(s)
  /\ queue[s] # <<>>
  /\ queue' = [queue EXCEPT ![s] = Tail(@)]
  /\ stream' = [stream EXCEPT ![s].at = "get",
                              ![s].received = Append(@, Head(queue[s])),
                              ![s].heartbeat = FALSE]
  /\ UNCHANGED <<pc, config, state, conversion, trace, calls, runs, service_class,
                 _log_buffer, _subscribers, emit_calls, handle_error_calls>>

\* subscribe_logs(), the while loop: the queue stayed empty for 30 seconds
\* and a heartbeat is yielded.
subscribe_logs_heartbeat(s) ==
  /\ pc = "log_stream"
  /\ AtQueue(s)
  /\ queue[s] = <<>>
  /\ stream' = [stream EXCEPT ![s].at = "get", ![s].heartbeat = TRUE]
  /\ UNCHANGED <<pc, config, state, conversion, trace, calls, runs, service_class,
                 _log_buffer, _subscribers, queue, emit_calls, handle_error_calls>>

\* subscribe_logs(), the stream ends: the generator is closed or cancelled
\* where it is suspended and the finally clause removes the queue.
subscribe_logs_finally(s) ==
  /\ pc = "log_stream"
  /\ stream[s].at \in {"replay", "get"}
  /\ _subscribers' = remove(_subscribers, s)
  /\ stream' = [stream EXCEPT ![s].at = "closed"]
  /\ UNCHANGED <<pc, config, state, conversion, trace, calls, runs, service_class,
                 _log_buffer, queue, emit_calls, handle_error_calls>>

LogNext ==
  \/ emit
  \/ \E s \in Streams : subscribe_logs(s)
  \/ \E s \in Streams : subscribe_logs_replay(s)
  \/ \E s \in Streams : subscribe_logs_get(s)
  \/ \E s \in Streams : subscribe_logs_heartbeat(s)
  \/ \E s \in Streams : subscribe_logs_finally(s)

LogSpec == LogInit /\ [][LogNext]_vars

\* ------------------------------------------------------------------ C39
StrictlyIncreasing(entries) ==
  \A i \in 1..(Len(entries) - 1) : entries[i] < entries[i + 1]

Elements(entries) == {entries[i] : i \in 1..Len(entries)}

\* The entries stream s has received that were emitted after it subscribed.
ReceivedSince(s) ==
  SelectSeq(stream[s].received, LAMBDA entry : entry > stream[s].subscribed_at)

\* What a stream received is in emission order and holds no entry twice;
\* for a stream that is still subscribed, the entries emitted since it
\* subscribed are, in emission order, those it received followed by those
\* on its queue, the skipped ones left out.
DeliveredInOrderOnce ==
  \A s \in Streams :
    /\ StrictlyIncreasing(stream[s].received)
    /\ IsSubscriber(s) =>
         /\ StrictlyIncreasing(ReceivedSince(s) \o queue[s])
         /\ Elements(ReceivedSince(s) \o queue[s]) =
              ((stream[s].subscribed_at + 1)..LastEntry) \ stream[s].skipped
         /\ stream[s].skipped \subseteq (stream[s].subscribed_at + 1)..LastEntry

\* emit returns without an exception whenever it is called.
EmitReturns ==
  /\ pc # "raised"
  /\ emit_calls < MaxEmits => ENABLED emit

\* An emit that appended its entry put it on the queue of every subscriber,
\* except on a queue that held QueueMaxSize entries, which it left as it was.
SkippedOnlyWhenFull ==
  \A s \in Streams :
    (IsSubscriber(s) /\ _log_buffer' # _log_buffer) =>
      \/ queue'[s] = Append(queue[s], NextEntry)
      \/ Len(queue[s]) = QueueMaxSize /\ queue'[s] = queue[s]

\* The buffer holds the most recent entries, BufferMaxLen of them at most.
BufferHoldsMostRecent ==
  /\ Len(_log_buffer) <= BufferMaxLen
  /\ _log_buffer = BufferAfter(LastEntry)

\* The queue of an open stream is in _subscribers once, the queue of a
\* stream that ended or was cancelled is not in it.
RemovedWhenStreamEnds ==
  \A s \in Streams :
    /\ stream[s].at \in {"replay", "get"} =>
         Cardinality({i \in 1..Len(_subscribers) : _subscribers[i] = s}) = 1
    /\ stream[s].at \in {"created", "closed"} => ~IsSubscriber(s)

\* C39: for any interleaving of log emissions and subscriber reads, each
\* subscriber receives the entries emitted after it subscribed in emission
\* order and at most once each; emitting never blocks or raises; an entry is
\* skipped for a subscriber only when its queue already holds 50 undelivered
\* entries; the replay buffer never holds more than the 100 most recent
\* entries; a subscriber's queue is removed from the subscriber list when
\* its stream ends or is cancelled.
C39_LogStreamDelivery ==
  /\ [](DeliveredInOrderOnce /\ EmitReturns /\ BufferHoldsMostRecent
        /\ RemovedWhenStreamEnds)
  /\ [][SkippedOnlyWhenFull]_vars

\* stream1 was passed over by an emit while its queue was full and has
\* since received an entry from its queue; stream2 was opened while stream1
\* was open, received replayed and new entries, and ended.
C39_Witness ==
  /\ stream["stream1"].skipped # {}
  /\ ReceivedSince("stream1") # <<>>
  /\ IsSubscriber("stream1")
  /\ stream["stream2"].at = "closed"
  /\ ReceivedSince("stream2") # <<>>
  /\ Len(stream["stream2"].received) > Len(ReceivedSince("stream2"))
  /\ stream["stream1"].skipped \subseteq Elements(stream["stream2"].received)

\* The buffer is full and has discarded its oldest entry.
C39_BufferDiscards ==
  /\ Len(_log_buffer) = BufferMaxLen
  /\ _log_buffer[1] > 1

====
